---- MODULE Spec2Model ----
(***************************************************************************)
(* A model of the extraction and classification core of repotrackr:       *)
(*   - ProgressCalculator   (app/services/progress_calculator.py)          *)
(*   - SkillMapper          (app/services/skill_mapper.py)                 *)
(*   - ManifestParser       (app/services/manifest_parser.py)              *)
(*   - SkillsExtractionPipeline.process_manifest_files                     *)
(*                          (app/services/skills_extraction_pipeline.py)   *)
(*   - TaskExtractor        (app/services/task_extractor.py)               *)
(*   - RepositoryManager    (app/services/repository_manager.py)           *)
(*   - PlanProcessingPipeline.process_project                              *)
(*                          (app/services/processing_pipeline.py)          *)
(*   - the project endpoints (app/api/v1/endpoints/projects.py)            *)
(* Each component has its own specification (SpecProgress, ...) over the   *)
(* shared variables; the variables of the other components stay idle.      *)
(*                                                                         *)
(* Text is modelled by TLA+ strings; Len, \o and SubSeq act on them as on  *)
(* Python str.  Decimal and float quantities are integers in a fixed unit  *)
(* (hundredths of a percent, thousandths of a confidence).                 *)
(***************************************************************************)
EXTENDS Integers, Sequences, FiniteSets, TLC

VARIABLES
    tasks,          \* ProgressCalculator: the List[Task] handed to calculate_progress
    snapshot,       \* ProgressCalculator: the ProgressSnapshot it returned (NoSnapshot before the call)
    package,        \* SkillMapper: the Package handed to map_package_to_skill
    normalized,     \* SkillMapper: <<normalize(name), normalize(normalize(name))>> as far as called
    skill,          \* SkillMapper: what map_package_to_skill returned
    skills,         \* SkillMapper: the caller's List[Skill]; its elements are the Skill objects
    skills_before,  \* SkillMapper: the field values of those objects when deduplicate_skills was called
    deduplicated,   \* SkillMapper: the list deduplicate_skills returned, as positions in skills
    returned,       \* SkillMapper: the field values of that list when it was returned
    again,          \* SkillMapper: the field values of deduplicate_skills(deduplicated)
    manifest,       \* ManifestParser: the manifest file (filename, content) handed to a parse function
    parsed,         \* ManifestParser: the outcome of that call
    repo,           \* SkillsExtractionPipeline: the manifest files under repo_path, in listing order
    processed,      \* SkillsExtractionPipeline: the outcome of process_manifest_files(repo_path)
    markdown,       \* TaskExtractor: the content and file_path handed to a parse function
    extracted,      \* TaskExtractor: the operation called and the List[Task] it returned
    filesystem,     \* RepositoryManager: the directories under temp_dir, each absent or a checkout
    lookup,         \* RepositoryManager: the operation called on a checkout and what it returned
    database,       \* PlanProcessingPipeline: the stored Project rows with their tasks and snapshots
    runs,           \* PlanProcessingPipeline: the process_project calls in flight, each with its position
    projects,       \* Project endpoints: the rows of the projects table, in the order they were inserted
    clock,          \* Project endpoints: the time of the last write and the number of ids uuid4 has issued
    response        \* Project endpoints: the last request and the response to it

progressVars == <<tasks, snapshot>>

mapperVars == <<package, normalized, skill>>

dedupVars == <<skills, skills_before, deduplicated, returned, again>>

parserVars == <<manifest, parsed>>

pipelineVars == <<repo, processed>>

extractorVars == <<markdown, extracted>>

processingVars == <<filesystem, lookup, database, runs>>

projectsVars == <<projects, clock, response>>

vars == <<tasks, snapshot, package, normalized, skill,
          skills, skills_before, deduplicated, returned, again,
          manifest, parsed, repo, processed,
          markdown, extracted,
          filesystem, lookup, database, runs,
          projects, clock, response>>

\* what the actions of one component leave alone
exceptProgress == <<mapperVars, dedupVars, parserVars, pipelineVars, extractorVars, processingVars, projectsVars>>

exceptMapper == <<progressVars, dedupVars, parserVars, pipelineVars, extractorVars, processingVars, projectsVars>>

exceptDedup == <<progressVars, mapperVars, parserVars, pipelineVars, extractorVars, processingVars, projectsVars>>

exceptParser == <<progressVars, mapperVars, dedupVars, pipelineVars, extractorVars, processingVars, projectsVars>>

exceptPipeline == <<progressVars, mapperVars, dedupVars, parserVars, extractorVars, processingVars, projectsVars>>

exceptExtractor == <<progressVars, mapperVars, dedupVars, parserVars, pipelineVars, processingVars, projectsVars>>

exceptProcessing == <<progressVars, mapperVars, dedupVars, parserVars, pipelineVars, extractorVars, projectsVars>>

exceptProjects == <<progressVars, mapperVars, dedupVars, parserVars, pipelineVars, extractorVars, processingVars>>

(***************************************************************************)
(* Bounds                                                                  *)
(***************************************************************************)
\* longest task list handed to calculate_progress
MaxTasks == 32
\* longest list handed to deduplicate_skills
MaxSkills == 3
\* task lists up to this length are built in every order; longer ones are
\* extended in status order only (calculate_progress reads a list through
\* len() and four order-blind counts)
MaxMixed == 2

\* the files of a repository
MaxFiles == 3

\* the process_project calls in flight at once, and the stored projects they
\* are for
MaxRuns == 2

\* the requests to the project endpoints that write a row
MaxWrites == 3

\* the lines of a plan file built from PlanLines
MaxLines == 2

(***************************************************************************)
(* Values before a call, and the idle state of each component              *)
(***************************************************************************)
NoSnapshot ==
    [percentage_complete |-> 0, tasks_total |-> 0, tasks_done |-> 0,
     tasks_doing |-> 0, tasks_todo |-> 0, tasks_blocked |-> 0,
     project_status |-> "none"]

NotCalled == [called |-> FALSE, value |-> <<>>]

IdleProgress ==
    /\ tasks = <<>>
    /\ snapshot = NoSnapshot

IdleMapper ==
    /\ package = [name |-> "", version |-> <<>>, source |-> "", confidence |-> 0]
    /\ normalized = <<>>
    /\ skill = NotCalled

IdleDedup ==
    /\ skills = <<>>
    /\ skills_before = <<>>
    /\ deduplicated = NotCalled
    /\ returned = <<>>
    /\ again = NotCalled

JNull == [t |-> "NoneType", s |-> "", items |-> <<>>]

\* the content of a file read as text
Text(text) == [text |-> text, valid |-> FALSE, value |-> JNull]

\* the content of a well-formed JSON or TOML file denoting value
Document(value) == [text |-> "", valid |-> TRUE, value |-> value]

\* a content that json.loads and tomli.loads reject
Malformed == Text("{ not json, not toml")

NotParsed == [called |-> FALSE, raised |-> "", warned |-> FALSE, packages |-> <<>>]

IdleParser ==
    /\ manifest = [filename |-> "", content |-> Text("")]
    /\ parsed = NotParsed

NotProcessed == [called |-> FALSE, raised |-> "", packages |-> <<>>]

IdlePipeline ==
    /\ repo = <<>>
    /\ processed = NotProcessed

\* a markdown content: its text, and the tables (rows of cells) it denotes
Markdown(text, tables) == [text |-> text, tables |-> tables]

NotExtracted == [op |-> "", tasks |-> <<>>]

IdleExtractor ==
    /\ markdown = [content |-> Markdown("", <<>>), file_path |-> <<>>]
    /\ extracted = NotExtracted

NoLookup ==
    [op |-> "", repo_path |-> "", repo_url |-> "", plan_path |-> "", raised |-> <<>>, value |-> <<>>]

IdleProcessing ==
    /\ filesystem = <<>>
    /\ lookup = NoLookup
    /\ database = <<>>
    /\ runs = <<>>

\* no request has been made
NoResponse ==
    [op |-> "", project_id |-> "", request |-> <<>>, status_code |-> 0, detail |-> "", body |-> <<>>]

IdleProjects ==
    /\ projects = <<>>
    /\ clock = [now |-> 0, issued |-> 0]
    /\ response = NoResponse

(***************************************************************************)
(* ProgressCalculator                                                      *)
(***************************************************************************)
TaskStatus == <<"todo", "doing", "done", "blocked">>

TaskStatusSet == {TaskStatus[i] : i \in 1..Len(TaskStatus)}

StatusRank(s) == CHOOSE i \in 1..Len(TaskStatus) : TaskStatus[i] = s

green_threshold == 70

yellow_threshold == 30

\* sum(1 for task in tasks if task.status == status)
CountStatus(ts, status) == Cardinality({i \in 1..Len(ts) : ts[i].status = status})

\* Decimal(str(num / den)).quantize(Decimal('0.01')) in hundredths, for the
\* quotient num/den given in hundredths: the decimal context's default
\* rounding, ROUND_HALF_EVEN.  (The float (completed / total) * 100 prints
\* as the exact quotient to the third decimal for every total below 160.)
QuantizeHalfUp(num, den) ==
    LET q == num \div den
        r == num % den
    IN  IF 2 * r >= den THEN q + 1 ELSE q

Quantize(num, den) ==
    LET q == num \div den
        r == num % den
    IN  IF 2 * r > den \/ (2 * r = den /\ q % 2 = 1) THEN q + 1 ELSE q

determine_status_strict(percentage, blocked_count) ==
    IF percentage > green_threshold * 100 /\ blocked_count = 0 THEN "green"
    ELSE IF percentage > yellow_threshold * 100 /\ blocked_count <= 1 THEN "yellow"
    ELSE "red"

\* _determine_status: percentage in hundredths of a percent
determine_status(percentage, blocked_count) ==
    IF percentage >= green_threshold * 100 /\ blocked_count = 0 THEN "green"
    ELSE IF percentage >= yellow_threshold * 100 /\ blocked_count <= 1 THEN "yellow"
    ELSE "red"

calculate_progress_miscount(ts) ==
    IF ts = <<>> THEN
        [percentage_complete |-> 0, tasks_total |-> 0, tasks_done |-> 0,
         tasks_doing |-> 0, tasks_todo |-> 0, tasks_blocked |-> 0,
         project_status |-> "red"]
    ELSE
        LET tasks_done == CountStatus(ts, "done")
            tasks_doing == CountStatus(ts, "done")
            tasks_todo == CountStatus(ts, "todo")
            tasks_blocked == CountStatus(ts, "blocked")
            tasks_total == Len(ts)
            completed_tasks == tasks_done + tasks_doing
            percentage_complete == Quantize(completed_tasks * 10000, tasks_total)
        IN  [percentage_complete |-> percentage_complete,
             tasks_total |-> tasks_total, tasks_done |-> tasks_done,
             tasks_doing |-> tasks_doing, tasks_todo |-> tasks_todo,
             tasks_blocked |-> tasks_blocked,
             project_status |-> determine_status(percentage_complete, tasks_blocked)]

\* calculate_progress: percentage_complete in hundredths of a percent
calculate_progress(ts) ==
    IF ts = <<>> THEN
        [percentage_complete |-> 0, tasks_total |-> 0, tasks_done |-> 0,
         tasks_doing |-> 0, tasks_todo |-> 0, tasks_blocked |-> 0,
         project_status |-> "red"]
    ELSE
        LET tasks_done == CountStatus(ts, "done")
            tasks_doing == CountStatus(ts, "doing")
            tasks_todo == CountStatus(ts, "todo")
            tasks_blocked == CountStatus(ts, "blocked")
            tasks_total == Len(ts)
            completed_tasks == tasks_done + tasks_doing
            percentage_complete == Quantize(completed_tasks * 10000, tasks_total)
        IN  [percentage_complete |-> percentage_complete,
             tasks_total |-> tasks_total, tasks_done |-> tasks_done,
             tasks_doing |-> tasks_doing, tasks_todo |-> tasks_todo,
             tasks_blocked |-> tasks_blocked,
             project_status |-> determine_status(percentage_complete, tasks_blocked)]

InitProgress ==
    /\ IdleProgress
    /\ IdleMapper
    /\ IdleDedup
    /\ IdleParser
    /\ IdlePipeline
    /\ IdleExtractor
    /\ IdleProcessing
    /\ IdleProjects

\* the caller appends one more Task to the list it will pass
AddTask ==
    /\ Len(tasks) < MaxTasks
    /\ \E s \in TaskStatusSet :
        /\ IF Len(tasks) < MaxMixed THEN TRUE
           ELSE StatusRank(s) >= StatusRank(tasks[Len(tasks)].status)
        /\ tasks' = Append(tasks, [status |-> s])
    /\ snapshot' = NoSnapshot
    /\ UNCHANGED exceptProgress

\* snapshot = await calculate_progress(tasks)
CalculateProgress ==
    /\ snapshot = NoSnapshot
    /\ snapshot' = calculate_progress(tasks)
    /\ UNCHANGED tasks
    /\ UNCHANGED exceptProgress

NextProgress ==
    \/ AddTask
    \/ CalculateProgress

SpecProgress == InitProgress /\ [][NextProgress]_vars

Called == snapshot.project_status # "none"

\* C1: for any task list passed to calculate_progress, the snapshot's four
\* per-status counts add up to tasks_total, and tasks_total is the length of
\* the list.
C1_CountsSumToTotal ==
    Called =>
        /\ snapshot.tasks_done + snapshot.tasks_doing
             + snapshot.tasks_todo + snapshot.tasks_blocked = snapshot.tasks_total
        /\ snapshot.tasks_total = Len(tasks)

C1_Witness ==
    /\ Called
    /\ snapshot.tasks_done > 0 /\ snapshot.tasks_doing > 0
    /\ snapshot.tasks_todo > 0 /\ snapshot.tasks_blocked > 0

C3_HalfUp ==
    (Called /\ tasks # <<>>) =>
        /\ snapshot.percentage_complete =
              QuantizeHalfUp((snapshot.tasks_done + snapshot.tasks_doing) * 10000,
                             Len(tasks))
        /\ snapshot.percentage_complete \in 0..10000

\* C3 amended: for every non-empty list, percentage_complete is
\* (done + doing) / total * 100 rounded to two decimals half to even (1 of
\* 32 = 3.125 gives 3.12, 3 of 32 = 9.375 gives 9.38), within [0, 100].
C3_HalfEven ==
    (Called /\ tasks # <<>>) =>
        LET n == (CountStatus(tasks, "done") + CountStatus(tasks, "doing")) * 10000
            d == Len(tasks)
            p == snapshot.percentage_complete
        IN  /\ 2 * d * p - 2 * n \in (0 - d)..d
            /\ (2 * d * p - 2 * n \in {0 - d, d}) => p % 2 = 0
            /\ p \in 0..10000
            /\ (Len(tasks) = 32 /\ n = 10000) => p = 312
            /\ (Len(tasks) = 32 /\ n = 30000) => p = 938

C3_Witness ==
    /\ Called
    /\ Len(tasks) = 32
    /\ snapshot.tasks_done + snapshot.tasks_doing = 1
    /\ snapshot.percentage_complete = 312

(***************************************************************************)
(* Text helpers (Python str methods)                                       *)
(***************************************************************************)
UpperAlphabet == "ABCDEFGHIJKLMNOPQRSTUVWXYZ"

LowerAlphabet == "abcdefghijklmnopqrstuvwxyz"

Range(f) == {f[i] : i \in DOMAIN f}

SetMax(S) == CHOOSE m \in S : \A x \in S : x <= m

SetMin(S) == CHOOSE m \in S : \A x \in S : m <= x

\* s[i] for a 1-based i
CharAt(s, i) == SubSeq(s, i, i)

LowerChar(c) ==
    IF \E i \in 1..Len(UpperAlphabet) : CharAt(UpperAlphabet, i) = c
    THEN CharAt(LowerAlphabet, CHOOSE i \in 1..Len(UpperAlphabet) : CharAt(UpperAlphabet, i) = c)
    ELSE c

RECURSIVE lower(_)
\* str.lower()
lower(s) ==
    IF Len(s) <= 1 THEN LowerChar(s)
    ELSE lower(SubSeq(s, 1, Len(s) \div 2)) \o lower(SubSeq(s, Len(s) \div 2 + 1, Len(s)))

RECURSIVE RemoveChar(_, _)
\* str.replace(c, '') for a single character c
RemoveChar(s, c) ==
    IF s = "" THEN ""
    ELSE (IF CharAt(s, 1) = c THEN "" ELSE CharAt(s, 1)) \o RemoveChar(SubSeq(s, 2, Len(s)), c)

\* sub in s
Contains(s, sub) ==
    \E i \in 1..(Len(s) - Len(sub) + 1) : SubSeq(s, i, i + Len(sub) - 1) = sub

\* any(p in s for p in patterns)
ContainsAny(s, patterns) == \E i \in 1..Len(patterns) : Contains(s, patterns[i])

(***************************************************************************)
(* SkillMapper                                                             *)
(***************************************************************************)
\* the dict display assigned to self.skill_mappings, entry by entry as written
\* (it names 'typescript' and 'go' twice)
skill_mappings_display == <<
    [name |-> "python", category |-> "language", aliases |-> <<"py", "python3">>],
    [name |-> "javascript", category |-> "language", aliases |-> <<"js", "node">>],
    [name |-> "typescript", category |-> "language", aliases |-> <<"ts">>],
    [name |-> "rust", category |-> "language", aliases |-> <<"rs">>],
    [name |-> "go", category |-> "language", aliases |-> <<"golang">>],
    [name |-> "java", category |-> "language", aliases |-> <<>>],
    [name |-> "c#", category |-> "language", aliases |-> <<"csharp", "dotnet">>],
    [name |-> "php", category |-> "language", aliases |-> <<>>],
    [name |-> "ruby", category |-> "language", aliases |-> <<"rb">>],
    [name |-> "swift", category |-> "language", aliases |-> <<>>],
    [name |-> "kotlin", category |-> "language", aliases |-> <<"kt">>],
    [name |-> "scala", category |-> "language", aliases |-> <<>>],
    [name |-> "django", category |-> "framework", aliases |-> <<"djangoproject">>],
    [name |-> "flask", category |-> "framework", aliases |-> <<"flask-app">>],
    [name |-> "fastapi", category |-> "framework", aliases |-> <<"fast-api">>],
    [name |-> "uvicorn", category |-> "framework", aliases |-> <<"asgi">>],
    [name |-> "gunicorn", category |-> "framework", aliases |-> <<"wsgi">>],
    [name |-> "tornado", category |-> "framework", aliases |-> <<>>],
    [name |-> "aiohttp", category |-> "framework", aliases |-> <<"async-http">>],
    [name |-> "starlette", category |-> "framework", aliases |-> <<>>],
    [name |-> "bottle", category |-> "framework", aliases |-> <<>>],
    [name |-> "pyramid", category |-> "framework", aliases |-> <<>>],
    [name |-> "react", category |-> "framework", aliases |-> <<"reactjs", "react.js">>],
    [name |-> "vue", category |-> "framework", aliases |-> <<"vuejs", "vue.js">>],
    [name |-> "angular", category |-> "framework", aliases |-> <<"angularjs">>],
    [name |-> "next", category |-> "framework", aliases |-> <<"nextjs", "next.js">>],
    [name |-> "nuxt", category |-> "framework", aliases |-> <<"nuxtjs", "nuxt.js">>],
    [name |-> "express", category |-> "framework", aliases |-> <<"expressjs", "express.js">>],
    [name |-> "koa", category |-> "framework", aliases |-> <<"koajs">>],
    [name |-> "nest", category |-> "framework", aliases |-> <<"nestjs">>],
    [name |-> "svelte", category |-> "framework", aliases |-> <<"sveltejs">>],
    [name |-> "ember", category |-> "framework", aliases |-> <<"emberjs">>],
    [name |-> "backbone", category |-> "framework", aliases |-> <<"backbonejs">>],
    [name |-> "actix-web", category |-> "framework", aliases |-> <<"actix">>],
    [name |-> "rocket", category |-> "framework", aliases |-> <<"rocket-rs">>],
    [name |-> "warp", category |-> "framework", aliases |-> <<"warp-rs">>],
    [name |-> "axum", category |-> "framework", aliases |-> <<"axum-rs">>],
    [name |-> "tonic", category |-> "framework", aliases |-> <<"grpc-rs">>],
    [name |-> "gin", category |-> "framework", aliases |-> <<"gin-gonic">>],
    [name |-> "echo", category |-> "framework", aliases |-> <<"echo-framework">>],
    [name |-> "gorilla", category |-> "framework", aliases |-> <<"gorilla-mux">>],
    [name |-> "fiber", category |-> "framework", aliases |-> <<"fiber-go">>],
    [name |-> "chi", category |-> "framework", aliases |-> <<"chi-router">>],
    [name |-> "postgresql", category |-> "database", aliases |-> <<"postgres", "psql">>],
    [name |-> "mysql", category |-> "database", aliases |-> <<"mariadb">>],
    [name |-> "sqlite", category |-> "database", aliases |-> <<"sqlite3">>],
    [name |-> "mongodb", category |-> "database", aliases |-> <<"mongo">>],
    [name |-> "redis", category |-> "database", aliases |-> <<"redis-py">>],
    [name |-> "cassandra", category |-> "database", aliases |-> <<"cassandra-db">>],
    [name |-> "elasticsearch", category |-> "database", aliases |-> <<"elastic", "es">>],
    [name |-> "influxdb", category |-> "database", aliases |-> <<"influx">>],
    [name |-> "neo4j", category |-> "database", aliases |-> <<"neo4j-db">>],
    [name |-> "dynamodb", category |-> "database", aliases |-> <<"aws-dynamodb">>],
    [name |-> "sqlalchemy", category |-> "orm", aliases |-> <<"sql-alchemy">>],
    [name |-> "alembic", category |-> "orm", aliases |-> <<"db-migration">>],
    [name |-> "prisma", category |-> "orm", aliases |-> <<"prisma-client">>],
    [name |-> "sequelize", category |-> "orm", aliases |-> <<"sequelize-orm">>],
    [name |-> "typeorm", category |-> "orm", aliases |-> <<"type-orm">>],
    [name |-> "gorm", category |-> "orm", aliases |-> <<"gorm-go">>],
    [name |-> "sqlx", category |-> "orm", aliases |-> <<"sqlx-rs">>],
    [name |-> "diesel", category |-> "orm", aliases |-> <<"diesel-rs">>],
    [name |-> "pytest", category |-> "testing", aliases |-> <<"py-test">>],
    [name |-> "unittest", category |-> "testing", aliases |-> <<"python-testing">>],
    [name |-> "jest", category |-> "testing", aliases |-> <<"jest-testing">>],
    [name |-> "mocha", category |-> "testing", aliases |-> <<"mocha-testing">>],
    [name |-> "cypress", category |-> "testing", aliases |-> <<"cypress-testing">>],
    [name |-> "playwright", category |-> "testing", aliases |-> <<"playwright-testing">>],
    [name |-> "selenium", category |-> "testing", aliases |-> <<"selenium-testing">>],
    [name |-> "testify", category |-> "testing", aliases |-> <<"testify-go">>],
    [name |-> "criterion", category |-> "testing", aliases |-> <<"criterion-rs">>],
    [name |-> "webpack", category |-> "build", aliases |-> <<"webpack-bundler">>],
    [name |-> "vite", category |-> "build", aliases |-> <<"vite-bundler">>],
    [name |-> "rollup", category |-> "build", aliases |-> <<"rollup-bundler">>],
    [name |-> "parcel", category |-> "build", aliases |-> <<"parcel-bundler">>],
    [name |-> "esbuild", category |-> "build", aliases |-> <<"es-build">>],
    [name |-> "babel", category |-> "build", aliases |-> <<"babel-transpiler">>],
    [name |-> "typescript", category |-> "build", aliases |-> <<"ts-compiler">>],
    [name |-> "swc", category |-> "build", aliases |-> <<"swc-compiler">>],
    [name |-> "npm", category |-> "package_manager", aliases |-> <<"node-package-manager">>],
    [name |-> "yarn", category |-> "package_manager", aliases |-> <<"yarn-pkg">>],
    [name |-> "pnpm", category |-> "package_manager", aliases |-> <<"pnpm-pkg">>],
    [name |-> "pip", category |-> "package_manager", aliases |-> <<"python-pip">>],
    [name |-> "poetry", category |-> "package_manager", aliases |-> <<"poetry-python">>],
    [name |-> "cargo", category |-> "package_manager", aliases |-> <<"rust-cargo">>],
    [name |-> "go", category |-> "package_manager", aliases |-> <<"golang-mod">>],
    [name |-> "aws", category |-> "cloud", aliases |-> <<"amazon-web-services">>],
    [name |-> "azure", category |-> "cloud", aliases |-> <<"microsoft-azure">>],
    [name |-> "gcp", category |-> "cloud", aliases |-> <<"google-cloud", "google-cloud-platform">>],
    [name |-> "heroku", category |-> "cloud", aliases |-> <<"heroku-platform">>],
    [name |-> "vercel", category |-> "cloud", aliases |-> <<"vercel-platform">>],
    [name |-> "netlify", category |-> "cloud", aliases |-> <<"netlify-platform">>],
    [name |-> "digitalocean", category |-> "cloud", aliases |-> <<"do", "digital-ocean">>],
    [name |-> "docker", category |-> "devops", aliases |-> <<"docker-container">>],
    [name |-> "kubernetes", category |-> "devops", aliases |-> <<"k8s", "kube">>],
    [name |-> "terraform", category |-> "devops", aliases |-> <<"terraform-iac">>],
    [name |-> "ansible", category |-> "devops", aliases |-> <<"ansible-automation">>],
    [name |-> "jenkins", category |-> "devops", aliases |-> <<"jenkins-ci">>],
    [name |-> "github-actions", category |-> "devops", aliases |-> <<"github-ci">>],
    [name |-> "gitlab-ci", category |-> "devops", aliases |-> <<"gitlab-pipeline">>],
    [name |-> "circleci", category |-> "devops", aliases |-> <<"circle-ci">>],
    [name |-> "travis", category |-> "devops", aliases |-> <<"travis-ci">>],
    [name |-> "prometheus", category |-> "monitoring", aliases |-> <<"prometheus-metrics">>],
    [name |-> "grafana", category |-> "monitoring", aliases |-> <<"grafana-dashboard">>],
    [name |-> "datadog", category |-> "monitoring", aliases |-> <<"datadog-apm">>],
    [name |-> "newrelic", category |-> "monitoring", aliases |-> <<"new-relic">>],
    [name |-> "sentry", category |-> "monitoring", aliases |-> <<"sentry-error-tracking">>],
    [name |-> "logstash", category |-> "monitoring", aliases |-> <<"elastic-logstash">>],
    [name |-> "fluentd", category |-> "monitoring", aliases |-> <<"fluent-d">>],
    [name |-> "requests", category |-> "utility", aliases |-> <<"python-requests">>],
    [name |-> "axios", category |-> "utility", aliases |-> <<"axios-http">>],
    [name |-> "lodash", category |-> "utility", aliases |-> <<"lodash-js">>],
    [name |-> "moment", category |-> "utility", aliases |-> <<"moment-js">>],
    [name |-> "pandas", category |-> "utility", aliases |-> <<"pandas-data">>],
    [name |-> "numpy", category |-> "utility", aliases |-> <<"numpy-array">>],
    [name |-> "matplotlib", category |-> "utility", aliases |-> <<"matplotlib-plot">>],
    [name |-> "seaborn", category |-> "utility", aliases |-> <<"seaborn-viz">>],
    [name |-> "scikit-learn", category |-> "utility", aliases |-> <<"sklearn", "scikit">>],
    [name |-> "tensorflow", category |-> "utility", aliases |-> <<"tf", "tensor-flow">>],
    [name |-> "pytorch", category |-> "utility", aliases |-> <<"torch", "py-torch">>]
>>

\* the keys of the dict a display builds: each key once, where it first appears
skill_mappings_keys ==
    LET d == skill_mappings_display
        firsts == SelectSeq([i \in 1..Len(d) |-> i],
                            LAMBDA i : \A j \in 1..(i - 1) : d[j].name # d[i].name)
    IN  [k \in 1..Len(firsts) |-> d[firsts[k]].name]

\* self.skill_mappings: of a key written twice the later value stands
skill_mappings ==
    LET d == skill_mappings_display
    IN  [name \in Range(skill_mappings_keys) |->
            d[SetMax({i \in 1..Len(d) : d[i].name = name})]]

\* self.alias_mappings, as the loop of __init__ fills it: every key maps to
\* itself and every alias to its key; the last assignment to a name stands
alias_mappings ==
    LET writers(name) ==
            {k \in 1..Len(skill_mappings_keys) :
                \/ skill_mappings_keys[k] = name
                \/ name \in Range(skill_mappings[skill_mappings_keys[k]].aliases)}
        names == Range(skill_mappings_keys)
                   \cup UNION {Range(skill_mappings[k].aliases) : k \in Range(skill_mappings_keys)}
    IN  [name \in names |-> skill_mappings_keys[SetMax(writers(name))]]

\* normalize_skill_name
normalize_skill_name(name) ==
    LET normalized_ == RemoveChar(RemoveChar(RemoveChar(lower(name), "-"), "_"), ".")
    IN  IF normalized_ \in DOMAIN alias_mappings THEN alias_mappings[normalized_] ELSE normalized_

\* _infer_category
infer_category(package_name) ==
    LET name_lower == lower(package_name)
    IN  IF ContainsAny(name_lower, <<"python", "py-", "-py", "js-", "-js", "ts-", "-ts">>) THEN "language"
        ELSE IF ContainsAny(name_lower, <<"framework", "web", "api", "server", "app">>) THEN "framework"
        ELSE IF ContainsAny(name_lower, <<"db", "database", "sql", "nosql", "orm", "model">>) THEN "database"
        ELSE IF ContainsAny(name_lower, <<"test", "spec", "mock", "stub", "fixture">>) THEN "testing"
        ELSE IF ContainsAny(name_lower, <<"build", "bundle", "compile", "transpile">>) THEN "build"
        ELSE IF ContainsAny(name_lower, <<"aws", "azure", "gcp", "cloud", "serverless">>) THEN "cloud"
        ELSE IF ContainsAny(name_lower, <<"deploy", "ci", "cd", "pipeline", "docker", "k8s">>) THEN "devops"
        ELSE IF ContainsAny(name_lower, <<"log", "metric", "monitor", "trace", "alert">>) THEN "monitoring"
        ELSE "utility"

\* the factor 0.7 of map_package_to_skill, in tenths
InferredFactorTenths == 7

map_package_to_skill_no_penalty(p) ==
    LET normalized_name == normalize_skill_name(p.name)
    IN  IF normalized_name \in DOMAIN skill_mappings THEN
            <<[name |-> normalized_name,
               category |-> skill_mappings[normalized_name].category,
               confidence |-> p.confidence,
               source |-> p.source,
               aliases |-> skill_mappings[normalized_name].aliases]>>
        ELSE IF infer_category(p.name) # "" THEN
            <<[name |-> normalized_name,
               category |-> infer_category(p.name),
               confidence |-> p.confidence,
               source |-> p.source,
               aliases |-> <<>>]>>
        ELSE <<>>

\* map_package_to_skill: <<>> is None, <<s>> the Skill s; confidences in thousandths
map_package_to_skill(p) ==
    LET normalized_name == normalize_skill_name(p.name)
    IN  IF normalized_name \in DOMAIN skill_mappings THEN
            <<[name |-> normalized_name,
               category |-> skill_mappings[normalized_name].category,
               confidence |-> p.confidence,
               source |-> p.source,
               aliases |-> skill_mappings[normalized_name].aliases]>>
        ELSE IF infer_category(p.name) # "" THEN
            <<[name |-> normalized_name,
               category |-> infer_category(p.name),
               confidence |-> (p.confidence * InferredFactorTenths) \div 10,
               source |-> p.source,
               aliases |-> <<>>]>>
        ELSE <<>>

\* names the mapper is called with: every key and alias of the skill database,
\* the spellings of the repository's tests and demos, and unknown packages
\* that reach each branch of _infer_category
ExtraNames ==
    {"React.js", "fast-api", "PostgreSQL", "Django", "TypeScript", "Scikit_Learn",
     "py-utils", "left-pad", "webserver-utils", "mongodb-orm", "mocklib",
     "bundler", "cloudkit", "deployer", "logfmt", "tracelog", "serde", "tokio",
     "sql-test", "web-py", "python-dateutil", "c#", "GOLANG", "actix_web"}

MapperNames ==
    Range(skill_mappings_keys)
      \cup UNION {Range(skill_mappings_display[i].aliases) : i \in 1..Len(skill_mappings_display)}
      \cup ExtraNames

PackageSources == {"requirements.txt", "package.json"}

\* confidences in thousandths: those _calculate_confidence yields, and the ends of [0,1]
PackageConfidences == {0, 500, 600, 800, 900, 1000}

InitMapper ==
    /\ IdleProgress
    /\ package \in [name : MapperNames, version : {<<>>}, source : PackageSources,
                    confidence : PackageConfidences]
    /\ normalized = <<>>
    /\ skill = NotCalled
    /\ IdleDedup
    /\ IdleParser
    /\ IdlePipeline
    /\ IdleExtractor
    /\ IdleProcessing
    /\ IdleProjects

\* normalized = await normalize_skill_name(package.name)
NormalizeName ==
    /\ normalized = <<>>
    /\ normalized' = <<normalize_skill_name(package.name)>>
    /\ UNCHANGED <<package, skill>>
    /\ UNCHANGED exceptMapper

\* again = await normalize_skill_name(normalized)
NormalizeAgain ==
    /\ Len(normalized) = 1
    /\ normalized' = Append(normalized, normalize_skill_name(normalized[1]))
    /\ UNCHANGED <<package, skill>>
    /\ UNCHANGED exceptMapper

\* skill = await map_package_to_skill(package)
MapPackageToSkill ==
    /\ ~skill.called
    /\ skill' = [called |-> TRUE, value |-> map_package_to_skill(package)]
    /\ UNCHANGED <<package, normalized>>
    /\ UNCHANGED exceptMapper

NextMapper ==
    \/ NormalizeName
    \/ NormalizeAgain
    \/ MapPackageToSkill

SpecMapper == InitMapper /\ [][NextMapper]_vars

\* C4: normalize_skill_name is idempotent on every name (every key and alias
\* of the skill database included), and "React.js" and "react" both
\* normalize to "react".
C4_NormalizeIdempotent ==
    /\ Len(normalized) = 2 => normalized[2] = normalized[1]
    /\ (Len(normalized) >= 1 /\ package.name \in {"React.js", "react"}) => normalized[1] = "react"

\* the part of C4 the code does satisfy: the React.js example
C4_ReactExample ==
    (Len(normalized) >= 1 /\ package.name \in {"React.js", "react"}) => normalized[1] = "react"

SkillCategories ==
    {"language", "framework", "database", "orm", "testing", "build",
     "package_manager", "cloud", "devops", "monitoring", "utility"}

InferenceOrder ==
    <<[category |-> "language", tokens |-> {"python", "py-", "-py", "js-", "-js", "ts-", "-ts"}],
      [category |-> "framework", tokens |-> {"framework", "web", "api", "server", "app"}],
      [category |-> "database", tokens |-> {"db", "database", "sql", "nosql", "orm", "model"}],
      [category |-> "testing", tokens |-> {"test", "spec", "mock", "stub", "fixture"}],
      [category |-> "build", tokens |-> {"build", "bundle", "compile", "transpile"}],
      [category |-> "cloud", tokens |-> {"aws", "azure", "gcp", "cloud", "serverless"}],
      [category |-> "devops", tokens |-> {"deploy", "ci", "cd", "pipeline", "docker", "k8s"}],
      [category |-> "monitoring", tokens |-> {"log", "metric", "monitor", "trace", "alert"}]>>

Matches(k, low) == \E t \in InferenceOrder[k].tokens : Contains(low, t)

\* C8: map_package_to_skill returns a Skill for every Package.  A normalized
\* name that is a key of the skill database gets that entry's category and
\* the package's confidence; any other name gets the first matching category
\* of the ordered substring checks on the raw name, or utility, and 0.7
\* times the package's confidence.  The category is one of the eleven enum
\* values and the confidence stays within [0,1].
C8_MapAlwaysSucceeds ==
    skill.called =>
        /\ Len(skill.value) = 1
        /\ LET s == skill.value[1]
               n == normalize_skill_name(package.name)
               known == \E i \in 1..Len(skill_mappings_display) : skill_mappings_display[i].name = n
               low == lower(package.name)
               hits == {k \in 1..Len(InferenceOrder) : Matches(k, low)}
           IN  /\ s.name = n
               /\ \/ /\ known
                     /\ s.category = skill_mappings[n].category
                     /\ s.confidence = package.confidence
                  \/ /\ ~known
                     /\ hits # {} => s.category = InferenceOrder[SetMin(hits)].category
                     /\ hits = {} => s.category = "utility"
                     /\ 10 * s.confidence = 7 * package.confidence
               /\ s.category \in SkillCategories
               /\ s.confidence \in 0..1000
               /\ s.source = package.source

C8_Witness ==
    /\ skill.called
    /\ package.name = "sql-test"
    /\ package.confidence = 900
    /\ skill.value = <<[name |-> "sqltest", category |-> "database", confidence |-> 630,
                        source |-> package.source, aliases |-> <<>>]>>

(***************************************************************************)
(* More text helpers (Python str methods and the regular expressions of   *)
(* manifest_parser.py)                                                     *)
(***************************************************************************)
Digits == "0123456789"

\* string.whitespace
Whitespace == " \t\n\r\f"

RECURSIVE upper(_)
\* str.upper()
upper(s) ==
    IF s = "" THEN ""
    ELSE LET c == CharAt(s, 1)
             u == IF \E i \in 1..Len(LowerAlphabet) : CharAt(LowerAlphabet, i) = c
                  THEN CharAt(UpperAlphabet, CHOOSE i \in 1..Len(LowerAlphabet) : CharAt(LowerAlphabet, i) = c)
                  ELSE c
         IN  u \o upper(SubSeq(s, 2, Len(s)))

\* s.startswith(prefix)
StartsWith(s, prefix) == Len(prefix) <= Len(s) /\ SubSeq(s, 1, Len(prefix)) = prefix

\* s.find(sep) + 1: the 1-based position of the first occurrence, 0 when there is none
Find(s, sep) ==
    IF Contains(s, sep)
    THEN SetMin({i \in 1..(Len(s) - Len(sep) + 1) : SubSeq(s, i, i + Len(sep) - 1) = sep})
    ELSE 0

RECURSIVE split(_, _)
\* s.split(sep)
split(s, sep) ==
    LET i == Find(s, sep)
    IN  IF i = 0 THEN <<s>>
        ELSE <<SubSeq(s, 1, i - 1)>> \o split(SubSeq(s, i + Len(sep), Len(s)), sep)

\* the length of the longest prefix of s made of characters of chars
LeadingRun(s, chars) ==
    SetMin({i \in 1..(Len(s) + 1) : i = Len(s) + 1 \/ ~Contains(chars, CharAt(s, i))}) - 1

\* the length of the longest suffix of s made of characters of chars
TrailingRun(s, chars) ==
    Len(s) - SetMax({i \in 0..Len(s) : i = 0 \/ ~Contains(chars, CharAt(s, i))})

\* s.strip()
strip(s) ==
    LET a == LeadingRun(s, Whitespace)
    IN  IF a = Len(s) THEN "" ELSE SubSeq(s, a + 1, Len(s) - TrailingRun(s, Whitespace))

RECURSIVE split_whitespace(_)
\* s.split(): the maximal runs of non-whitespace characters
split_whitespace(s) ==
    LET t == SubSeq(s, LeadingRun(s, Whitespace) + 1, Len(s))
        k == SetMax({n \in 0..Len(t) : \A i \in 1..n : ~Contains(Whitespace, CharAt(t, i))})
    IN  IF t = "" THEN <<>>
        ELSE <<SubSeq(t, 1, k)>> \o split_whitespace(SubSeq(t, k + 1, Len(t)))

\* seq[-1]
Last(seq) == seq[Len(seq)]

(***************************************************************************)
(* ManifestParser: the line-oriented formats                               *)
(*                                                                         *)
(* A Package is [name, version, source, confidence]; an Optional[str] is   *)
(* <<>> for None and <<s>> for the string s; confidences are thousandths.  *)
(* A call's outcome is [raised, warned, packages]: the exception that left *)
(* the function ("" when it returned), whether it logged its "Failed to    *)
(* parse" warning, and the list it returned.  A file's content is          *)
(* [text, valid, value]: the text the line-oriented parsers read, and for  *)
(* json.loads and tomli.loads whether the text is well-formed and the      *)
(* value it then denotes.                                                  *)
(***************************************************************************)
\* the filenames the six parsers write into Package.source
ManifestSources ==
    {"requirements.txt", "package.json", "Dockerfile", "pyproject.toml", "Cargo.toml", "go.mod"}

popular_packages ==
    {"django", "flask", "fastapi", "requests", "pandas", "numpy", "pytest",
     "sqlalchemy", "alembic", "psycopg2", "redis", "celery", "uvicorn",
     "react", "vue", "angular", "express", "next", "typescript", "jest",
     "tailwindcss", "axios", "lodash", "moment", "webpack", "vite",
     "tokio", "serde", "actix-web", "sqlx", "clap", "reqwest",
     "gin", "echo", "gorilla", "gorm", "testify",
     "docker", "git", "npm", "pip", "cargo", "go"}

reliable_sources ==
    {"requirements.txt", "package.json", "pyproject.toml", "Cargo.toml",
     "go.mod", "Dockerfile", "docker-compose.yml"}

\* _calculate_confidence without the popularity boost
calculate_confidence_unboosted(package_name, source) ==
    LET base == 500
        reliable == IF source \in reliable_sources THEN base + 100 ELSE base
    IN  IF reliable < 1000 THEN reliable ELSE 1000

\* _calculate_confidence
calculate_confidence(package_name, source) ==
    LET base == 500
        popular == IF package_name \in popular_packages THEN base + 300 ELSE base
        reliable == IF source \in reliable_sources THEN popular + 100 ELSE popular
    IN  IF reliable < 1000 THEN reliable ELSE 1000

NewPackage(name, version, source) ==
    [name |-> name, version |-> version, source |-> source,
     confidence |-> calculate_confidence(name, source)]

Returned(packages) == [raised |-> "", warned |-> FALSE, packages |-> packages]

\* re.match(r'^([a-zA-Z0-9_-]+)(.*)$', line): the length of group 1, 0 for no match
RequirementNameChars == LowerAlphabet \o UpperAlphabet \o Digits \o "_-"

\* re.match(r'^[=<>~!]+(.+)$', version_spec): group 1, or None.  The run of
\* specifier characters gives back its last character when nothing follows it.
requirement_version(version_spec) ==
    LET j == LeadingRun(version_spec, "=<>~!")
    IN  IF j = 0 THEN <<>>
        ELSE IF j < Len(version_spec) THEN <<SubSeq(version_spec, j + 1, Len(version_spec))>>
        ELSE IF j >= 2 THEN <<SubSeq(version_spec, j, j)>>
        ELSE <<>>

RECURSIVE requirements_lines(_, _)
\* the loop of parse_requirements_txt over content.split('\n')
requirements_lines(lines, packages) ==
    IF lines = <<>> THEN packages
    ELSE
        LET line == strip(lines[1])
            k == LeadingRun(line, RequirementNameChars)
        IN  IF line = "" \/ StartsWith(line, "#") THEN requirements_lines(Tail(lines), packages)
            ELSE IF k = 0 THEN requirements_lines(Tail(lines), packages)
            ELSE
                LET name == lower(SubSeq(line, 1, k))
                    version_spec == strip(SubSeq(line, k + 1, Len(line)))
                    version == IF version_spec # "" THEN requirement_version(version_spec) ELSE <<>>
                IN  requirements_lines(Tail(lines),
                        Append(packages, NewPackage(name, version, "requirements.txt")))

\* parse_requirements_txt
parse_requirements_txt(content) == Returned(requirements_lines(split(content.text, "\n"), <<>>))

\* command_tools of _detect_tools_from_command, as written (a set: the order in
\* which a RUN line's tools are appended is the set's iteration order)
command_tools ==
    <<"apt-get", "yum", "dnf", "pip", "npm", "yarn", "cargo", "go",
      "git", "curl", "wget", "tar", "unzip", "make", "cmake">>

\* script_tools of _detect_tools_from_scripts, as written (a set, as above)
script_tools ==
    <<"webpack", "vite", "rollup", "jest", "mocha", "cypress", "eslint",
      "prettier", "typescript", "babel", "postcss", "tailwindcss">>

\* [tool for tool in tools if tool in text]
DetectTools(tools, text) == SelectSeq(tools, LAMBDA tool : Contains(text, tool))

\* _detect_tools_from_command
detect_tools_from_command(command) == DetectTools(command_tools, lower(command))

\* _detect_tools_from_scripts
detect_tools_from_scripts(script_content) == DetectTools(script_tools, script_content)

\* one Package without a version per detected tool
ToolPackages(tools, source) == [k \in 1..Len(tools) |-> NewPackage(tools[k], <<>>, source)]

\* image_spec.split(':')[0].split('/')[-1].lower()
image_name(image_spec) == lower(Last(split(split(image_spec, ":")[1], "/")))

RECURSIVE dockerfile_lines(_, _)
\* the loop of parse_dockerfile over content.split('\n')
dockerfile_lines(lines, packages) ==
    IF lines = <<>> THEN packages
    ELSE
        LET line == strip(lines[1])
        IN  IF line = "" \/ StartsWith(line, "#") THEN dockerfile_lines(Tail(lines), packages)
            ELSE IF StartsWith(upper(line), "FROM ") THEN
                dockerfile_lines(Tail(lines),
                    Append(packages,
                           NewPackage(image_name(strip(SubSeq(line, 6, Len(line)))), <<>>, "Dockerfile")))
            ELSE IF StartsWith(upper(line), "RUN ") THEN
                dockerfile_lines(Tail(lines),
                    packages \o ToolPackages(detect_tools_from_command(strip(SubSeq(line, 5, Len(line)))),
                                             "Dockerfile"))
            ELSE dockerfile_lines(Tail(lines), packages)

\* parse_dockerfile
parse_dockerfile(content) == Returned(dockerfile_lines(split(content.text, "\n"), <<>>))

RECURSIVE go_mod_lines(_, _)
\* the loop of parse_go_mod over content.split('\n')
go_mod_lines(lines, packages) ==
    IF lines = <<>> THEN packages
    ELSE
        LET line == strip(lines[1])
            parts == split_whitespace(line)
        IN  IF line = "" \/ StartsWith(line, "//") THEN go_mod_lines(Tail(lines), packages)
            ELSE IF StartsWith(line, "require ") /\ Len(parts) >= 3 THEN
                go_mod_lines(Tail(lines),
                    Append(packages, NewPackage(lower(Last(split(parts[2], "/"))), <<>>, "go.mod")))
            ELSE go_mod_lines(Tail(lines), packages)

\* parse_go_mod
parse_go_mod(content) == Returned(go_mod_lines(split(content.text, "\n"), <<>>))

(***************************************************************************)
(* ManifestParser: package.json, pyproject.toml, Cargo.toml                *)
(*                                                                         *)
(* json.loads and tomli.loads are library code: they read of a content     *)
(* whether it is syntactically valid and the value it then denotes.  A     *)
(* JSON/TOML value is [t, s, items]: its Python type t, its text s for a   *)
(* str or a number, and its items for a dict (key, value) or a list        *)
(* (key "", value).  A Python operation yields [raised, value].            *)
(***************************************************************************)
JNum(digits) == [t |-> "int", s |-> digits, items |-> <<>>]

JStr(text) == [t |-> "str", s |-> text, items |-> <<>>]

JList(values) ==
    [t |-> "list", s |-> "", items |-> [k \in 1..Len(values) |-> [key |-> "", value |-> values[k]]]]

JObj(items) == [t |-> "dict", s |-> "", items |-> items]

KV(key, value) == <<[key |-> key, value |-> value]>>

Ok(value) == [raised |-> "", value |-> value]

Raise(exception) == [raised |-> exception, value |-> JNull]

\* key in v
PyIn(key, v) ==
    IF v.t = "dict" THEN Ok(\E k \in 1..Len(v.items) : v.items[k].key = key)
    ELSE IF v.t = "list" THEN Ok(\E k \in 1..Len(v.items) : v.items[k].value = JStr(key))
    ELSE IF v.t = "str" THEN Ok(Contains(v.s, key))
    ELSE [raised |-> "TypeError", value |-> FALSE]

\* v[key] for a str key
PyGetItem(v, key) ==
    IF v.t = "dict" THEN
        IF \E k \in 1..Len(v.items) : v.items[k].key = key
        THEN Ok(v.items[SetMax({k \in 1..Len(v.items) : v.items[k].key = key})].value)
        ELSE Raise("KeyError")
    ELSE Raise("TypeError")

\* v.items() / v.values(), as the sequence of (key, value) items
PyItems(v) ==
    IF v.t = "dict" THEN [raised |-> "", value |-> v.items]
    ELSE [raised |-> "AttributeError", value |-> <<>>]

\* iter(v): the elements of a list, the keys of a dict, the characters of a str
PyIter(v) ==
    IF v.t = "list" THEN [raised |-> "", value |-> [k \in 1..Len(v.items) |-> v.items[k].value]]
    ELSE IF v.t = "dict" THEN [raised |-> "", value |-> [k \in 1..Len(v.items) |-> JStr(v.items[k].key)]]
    ELSE IF v.t = "str" THEN [raised |-> "", value |-> [k \in 1..Len(v.s) |-> JStr(CharAt(v.s, k))]]
    ELSE [raised |-> "TypeError", value |-> <<>>]

\* bool(v)
Truthy(v) ==
    IF v.t = "NoneType" THEN FALSE
    ELSE IF v.t = "int" THEN v.s # "0"
    ELSE IF v.t = "str" THEN v.s # ""
    ELSE v.items # <<>>

\* json.loads(content) / tomli.loads(content)
loads(content, error) == IF content.valid THEN Ok(content.value) ELSE Raise(error)

Raised(exception) == [raised |-> exception, warned |-> FALSE, packages |-> <<>>]

Warned(packages) == [raised |-> "", warned |-> TRUE, packages |-> packages]

\* a step of a parser: the exception it raised ("" for none) and the packages so far
Step(raised, packages) == [raised |-> raised, packages |-> packages]

\* re.match(r'^[^0-9]*([0-9].*)$', version_spec): group 1, or None
json_version(version_spec) ==
    LET first == SetMin({i \in 1..(Len(version_spec) + 1) :
                          i = Len(version_spec) + 1 \/ Contains(Digits, CharAt(version_spec, i))})
    IN  IF first > Len(version_spec) THEN <<>>
        ELSE <<SubSeq(version_spec, first, Len(version_spec))>>

RECURSIVE package_json_items(_, _)
\* for name, version_spec in data[dep_type].items(): ...
package_json_items(items, packages) ==
    IF items = <<>> THEN Step("", packages)
    ELSE
        LET name == lower(items[1].key)
            version_spec == items[1].value
        IN  IF Truthy(version_spec) /\ version_spec # JStr("*") THEN
                IF version_spec.t # "str" THEN Step("TypeError", packages)
                ELSE package_json_items(Tail(items),
                        Append(packages, NewPackage(name, json_version(version_spec.s), "package.json")))
            ELSE package_json_items(Tail(items),
                    Append(packages, NewPackage(name, <<>>, "package.json")))

RECURSIVE package_json_dependencies(_, _, _)
\* for dep_type in ['dependencies', 'devDependencies', 'peerDependencies']: ...
package_json_dependencies(data, dep_types, packages) ==
    IF dep_types = <<>> THEN Step("", packages)
    ELSE
        LET has == PyIn(dep_types[1], data)
            table == PyGetItem(data, dep_types[1])
            items == PyItems(table.value)
            done == package_json_items(items.value, packages)
        IN  IF has.raised # "" THEN Step(has.raised, packages)
            ELSE IF ~has.value THEN package_json_dependencies(data, Tail(dep_types), packages)
            ELSE IF table.raised # "" THEN Step(table.raised, packages)
            ELSE IF items.raised # "" THEN Step(items.raised, packages)
            ELSE IF done.raised # "" THEN done
            ELSE package_json_dependencies(data, Tail(dep_types), done.packages)

RECURSIVE SpaceJoin(_)
\* ' '.join(values) for str values
SpaceJoin(values) ==
    IF values = <<>> THEN ""
    ELSE IF Len(values) = 1 THEN values[1].value.s
    ELSE values[1].value.s \o " " \o SpaceJoin(Tail(values))

\* if 'scripts' in data: ...
package_json_scripts(data, packages) ==
    LET has == PyIn("scripts", data)
        scripts == PyGetItem(data, "scripts")
        values == PyItems(scripts.value)
    IN  IF has.raised # "" THEN Step(has.raised, packages)
        ELSE IF ~has.value THEN Step("", packages)
        ELSE IF scripts.raised # "" THEN Step(scripts.raised, packages)
        ELSE IF values.raised # "" THEN Step(values.raised, packages)
        ELSE IF \E k \in 1..Len(values.value) : values.value[k].value.t # "str"
             THEN Step("TypeError", packages)
        ELSE Step("", packages \o ToolPackages(detect_tools_from_scripts(lower(SpaceJoin(values.value))),
                                               "package.json"))

\* parse_package_json: only json.JSONDecodeError is caught
parse_package_json(content) ==
    LET data == loads(content, "JSONDecodeError")
        deps == package_json_dependencies(data.value,
                    <<"dependencies", "devDependencies", "peerDependencies">>, <<>>)
        scripts == package_json_scripts(data.value, deps.packages)
    IN  IF data.raised # "" THEN Warned(<<>>)
        ELSE IF deps.raised # "" THEN Raised(deps.raised)
        ELSE IF scripts.raised # "" THEN Raised(scripts.raised)
        ELSE Returned(scripts.packages)

\* dep.split('>=')[0].split('<=')[0].split('==')[0].split('~=')[0].strip().lower()
dependency_name(dep) ==
    lower(strip(split(split(split(split(dep, ">=")[1], "<=")[1], "==")[1], "~=")[1]))

RECURSIVE pyproject_deps(_, _)
\* for dep in deps: ... over the elements iter(deps) gave
pyproject_deps(deps, packages) ==
    IF deps = <<>> THEN Step("", packages)
    ELSE IF deps[1].t # "str" THEN Step("AttributeError", packages)
    ELSE pyproject_deps(Tail(deps),
            Append(packages, NewPackage(dependency_name(deps[1].s), <<>>, "pyproject.toml")))

\* if section in data and key in data[section]: for dep in data[section][key]: ...
pyproject_list(data, section, key, packages) ==
    LET has_section == PyIn(section, data)
        table == PyGetItem(data, section)
        has_key == PyIn(key, table.value)
        deps == PyGetItem(table.value, key)
        elements == PyIter(deps.value)
    IN  IF has_section.raised # "" THEN Step(has_section.raised, packages)
        ELSE IF ~has_section.value THEN Step("", packages)
        ELSE IF table.raised # "" THEN Step(table.raised, packages)
        ELSE IF has_key.raised # "" THEN Step(has_key.raised, packages)
        ELSE IF ~has_key.value THEN Step("", packages)
        ELSE IF deps.raised # "" THEN Step(deps.raised, packages)
        ELSE IF elements.raised # "" THEN Step(elements.raised, packages)
        ELSE pyproject_deps(elements.value, packages)

RECURSIVE pyproject_groups(_, _)
\* for group, deps in data['project']['optional-dependencies'].items(): for dep in deps: ...
pyproject_groups(groups, packages) ==
    IF groups = <<>> THEN Step("", packages)
    ELSE
        LET elements == PyIter(groups[1].value)
            done == pyproject_deps(elements.value, packages)
        IN  IF elements.raised # "" THEN Step(elements.raised, packages)
            ELSE IF done.raised # "" THEN done
            ELSE pyproject_groups(Tail(groups), done.packages)

\* if 'project' in data and 'optional-dependencies' in data['project']: ...
pyproject_optional(data, packages) ==
    LET has_section == PyIn("project", data)
        table == PyGetItem(data, "project")
        has_key == PyIn("optional-dependencies", table.value)
        optional == PyGetItem(table.value, "optional-dependencies")
        groups == PyItems(optional.value)
    IN  IF has_section.raised # "" THEN Step(has_section.raised, packages)
        ELSE IF ~has_section.value THEN Step("", packages)
        ELSE IF table.raised # "" THEN Step(table.raised, packages)
        ELSE IF has_key.raised # "" THEN Step(has_key.raised, packages)
        ELSE IF ~has_key.value THEN Step("", packages)
        ELSE IF optional.raised # "" THEN Step(optional.raised, packages)
        ELSE IF groups.raised # "" THEN Step(groups.raised, packages)
        ELSE pyproject_groups(groups.value, packages)

\* parse_pyproject_toml: every Exception is caught
parse_pyproject_toml(content) ==
    LET data == loads(content, "TOMLDecodeError")
        deps == pyproject_list(data.value, "project", "dependencies", <<>>)
        optional == pyproject_optional(data.value, deps.packages)
        requires == pyproject_list(data.value, "build-system", "requires", optional.packages)
    IN  IF data.raised # "" THEN Warned(<<>>)
        ELSE IF deps.raised # "" THEN Warned(deps.packages)
        ELSE IF optional.raised # "" THEN Warned(optional.packages)
        ELSE IF requires.raised # "" THEN Warned(requires.packages)
        ELSE Returned(requires.packages)

\* if table in data: for name, spec in data[table].items(): ...
cargo_table(data, table, packages) ==
    LET has == PyIn(table, data)
        deps == PyGetItem(data, table)
        items == PyItems(deps.value)
    IN  IF has.raised # "" THEN Step(has.raised, packages)
        ELSE IF ~has.value THEN Step("", packages)
        ELSE IF deps.raised # "" THEN Step(deps.raised, packages)
        ELSE IF items.raised # "" THEN Step(items.raised, packages)
        ELSE Step("", packages \o [k \in 1..Len(items.value) |->
                                      NewPackage(lower(items.value[k].key), <<>>, "Cargo.toml")])

\* parse_cargo_toml: every Exception is caught
parse_cargo_toml(content) ==
    LET data == loads(content, "TOMLDecodeError")
        deps == cargo_table(data.value, "dependencies", <<>>)
        dev == cargo_table(data.value, "dev-dependencies", deps.packages)
    IN  IF data.raised # "" THEN Warned(<<>>)
        ELSE IF deps.raised # "" THEN Warned(deps.packages)
        ELSE IF dev.raised # "" THEN Warned(dev.packages)
        ELSE Returned(dev.packages)

(***************************************************************************)
(* The parse functions, called on one manifest                             *)
(***************************************************************************)
RequirementsContents ==
    {Text("Django==4.2.0\nFlask>=2.3.0\n# comment\n"),
     Text("django==4.2.0\nfastapi>=0.100.0\npytest>=7.0.0\n"),
     Text(""),
     Text("requests\nnumpy[extra]>=1\n-e git+https://x\n"),
     Text("foo==\nbar=\n  PyTest ~= 7.0  \n\n#x\n"),
     Text("[[[\n==1.0\n")}

DockerfileContents ==
    {Text("FROM python:3.11-slim\nRUN pip install -r requirements.txt\n"),
     Text("# build\nfrom localhost:5000/team/Node:18 AS build\nRUN apt-get update && npm ci\nCMD go"),
     Text("FROM ghcr.io/org/img\nFROM\nRUN\n"),
     Text("FROM localhost:5000/team/node:18\n"),
     Text("")}

GoModContents ==
    {Text("module example.com/app\n\ngo 1.21\n\nrequire github.com/gin-gonic/gin v1.9.1\n"),
     Text("// deps\nrequire (\n\tgithub.com/x/y v1\n)\nrequire  a/b/Testify  v2 // indirect\nrequire onlytwo\n"),
     Text("")}

PackageJsonDependencies ==
    {<<>>,
     KV("dependencies", JObj(KV("React", JStr("^18.2.0")) \o KV("lodash", JStr("*")))),
     KV("dependencies", JObj(KV("express", JStr("latest")) \o KV("vue", JStr("")))),
     KV("dependencies", JObj(KV("react", JStr("^18.2.0")) \o KV("left-pad", JNum("1")))),
     KV("dependencies", JObj(KV("react", JNull))),
     KV("dependencies", JList(<<JStr("react")>>)),
     KV("dependencies", JStr("react")),
     KV("dependencies", JNull)}

PackageJsonDevDependencies ==
    {<<>>,
     KV("devDependencies", JObj(KV("jest", JStr("~29.0.0")))),
     KV("devDependencies", JNum("0"))}

PackageJsonScripts ==
    {<<>>,
     KV("scripts", JObj(KV("build", JStr("webpack --mode production")) \o KV("test", JStr("Jest --coverage")))),
     KV("scripts", JObj(KV("build", JNum("1")))),
     KV("scripts", JList(<<JStr("vite build")>>)),
     KV("scripts", JStr("vite build"))}

PackageJsonContents ==
    {Malformed, Document(JNull), Document(JNum("1")), Document(JStr("dependencies scripts")),
     Document(JStr("x")), Document(JList(<<JStr("dependencies")>>)), Document(JList(<<>>))}
      \cup {Document(JObj(KV("name", JStr("app")) \o d \o v \o c)) :
                d \in PackageJsonDependencies, v \in PackageJsonDevDependencies,
                c \in PackageJsonScripts}

PyprojectProject ==
    {<<>>,
     KV("project", JObj(KV("dependencies", JList(<<JStr("Django>=4.2"), JStr(" requests ")>>)))),
     KV("project", JObj(KV("dependencies", JList(<<JStr("django>=4.0"), JNum("5")>>)))),
     KV("project", JObj(KV("dependencies", JStr("pip")))),
     KV("project", JObj(KV("dependencies", JList(<<JStr("flask==2.0")>>))
                          \o KV("optional-dependencies",
                                JObj(KV("dev", JList(<<JStr("pytest~=7.0")>>)))))),
     KV("project", JObj(KV("dependencies", JList(<<JStr("flask<=3")>>))
                          \o KV("optional-dependencies", JList(<<JStr("pytest")>>)))),
     KV("project", JObj(KV("optional-dependencies", JObj(KV("dev", JNum("1")))))),
     KV("project", JStr("dependencies")),
     KV("project", JNum("1"))}

PyprojectBuildSystem ==
    {<<>>,
     KV("build-system", JObj(KV("requires", JList(<<JStr("setuptools>=61"), JStr("wheel")>>)))),
     KV("build-system", JObj(KV("requires", JNum("1"))))}

PyprojectContents ==
    {Malformed} \cup {Document(JObj(b \o q)) : q \in PyprojectProject, b \in PyprojectBuildSystem}

CargoDependencies ==
    {<<>>,
     KV("dependencies", JObj(KV("serde", JStr("1.0")) \o KV("Tokio", JObj(KV("version", JStr("1")))))),
     KV("dependencies", JStr("serde"))}

CargoDevDependencies ==
    {<<>>,
     KV("dev-dependencies", JObj(KV("criterion", JStr("0.5")))),
     KV("dev-dependencies", JList(<<JStr("criterion")>>))}

CargoContents ==
    {Malformed} \cup {Document(JObj(d \o v)) : d \in CargoDependencies, v \in CargoDevDependencies}

\* the contents a file of each name is given
Contents(filename) ==
    CASE filename = "requirements.txt" -> RequirementsContents
      [] filename = "package.json" -> PackageJsonContents
      [] filename = "pyproject.toml" -> PyprojectContents
      [] filename = "Cargo.toml" -> CargoContents
      [] filename = "go.mod" -> GoModContents
      [] filename = "Dockerfile" -> DockerfileContents

InitParser ==
    /\ IdleProgress
    /\ IdleMapper
    /\ IdleDedup
    /\ IdlePipeline
    /\ IdleExtractor
    /\ IdleProcessing
    /\ IdleProjects
    /\ \E filename \in ManifestSources :
         manifest \in [filename : {filename}, content : Contents(filename)]
    /\ parsed = NotParsed

\* the outcome of a call, as the state records it
Outcome(o) == [called |-> TRUE, raised |-> o.raised, warned |-> o.warned, packages |-> o.packages]

ParseRequirementsTxt ==
    /\ ~parsed.called
    /\ manifest.filename = "requirements.txt"
    /\ parsed' = Outcome(parse_requirements_txt(manifest.content))
    /\ UNCHANGED manifest
    /\ UNCHANGED exceptParser

ParsePackageJson ==
    /\ ~parsed.called
    /\ manifest.filename = "package.json"
    /\ parsed' = Outcome(parse_package_json(manifest.content))
    /\ UNCHANGED manifest
    /\ UNCHANGED exceptParser

ParseDockerfile ==
    /\ ~parsed.called
    /\ manifest.filename = "Dockerfile"
    /\ parsed' = Outcome(parse_dockerfile(manifest.content))
    /\ UNCHANGED manifest
    /\ UNCHANGED exceptParser

ParsePyprojectToml ==
    /\ ~parsed.called
    /\ manifest.filename = "pyproject.toml"
    /\ parsed' = Outcome(parse_pyproject_toml(manifest.content))
    /\ UNCHANGED manifest
    /\ UNCHANGED exceptParser

ParseCargoToml ==
    /\ ~parsed.called
    /\ manifest.filename = "Cargo.toml"
    /\ parsed' = Outcome(parse_cargo_toml(manifest.content))
    /\ UNCHANGED manifest
    /\ UNCHANGED exceptParser

ParseGoMod ==
    /\ ~parsed.called
    /\ manifest.filename = "go.mod"
    /\ parsed' = Outcome(parse_go_mod(manifest.content))
    /\ UNCHANGED manifest
    /\ UNCHANGED exceptParser

NextParser ==
    \/ ParseRequirementsTxt
    \/ ParsePackageJson
    \/ ParseDockerfile
    \/ ParsePyprojectToml
    \/ ParseCargoToml
    \/ ParseGoMod

SpecParser == InitParser /\ [][NextParser]_vars

\* C9: each manifest parse function returns a Package list for every content
\* and never raises: malformed content of any kind (invalid JSON/TOML, or
\* well-formed JSON/TOML whose top level, dependency tables, version values
\* or script values do not have the expected shape) yields the packages
\* salvaged so far, possibly none.
C9_ParsersNeverRaise ==
    parsed.called => parsed.raised = ""

\* the packages of the recorded call whose name is in the popular-package set
PopularPackages ==
    {k \in 1..Len(parsed.packages) : lower(parsed.packages[k].name) \in popular_packages}

\* C18: the confidence of a package is min(1, 0.5 + 0.3 if its lower-cased
\* name is in the popular-package set + 0.1 if its source filename is in the
\* reliable-source set); so every Package a parser emits has a confidence in
\* [0,1], and a popular package from requirements.txt has a confidence
\* greater than 0.5 and greater than a non-popular package of the same file.
C18_Confidence ==
    parsed.called =>
        /\ \A k \in 1..Len(parsed.packages) :
              LET pkg == parsed.packages[k]
                  total == 500 + (IF k \in PopularPackages THEN 300 ELSE 0)
                             + (IF pkg.source \in reliable_sources THEN 100 ELSE 0)
              IN  /\ pkg.confidence = (IF total < 1000 THEN total ELSE 1000)
                  /\ pkg.confidence \in 0..1000
        /\ manifest.filename = "requirements.txt" =>
              \A k \in PopularPackages :
                  /\ parsed.packages[k].confidence > 500
                  /\ \A j \in 1..Len(parsed.packages) \ PopularPackages :
                        parsed.packages[k].confidence > parsed.packages[j].confidence

\* a requirements.txt that gave a popular pkg and one that is not popular
C18_Witness ==
    /\ parsed.called
    /\ manifest.filename = "requirements.txt"
    /\ PopularPackages # {}
    /\ 1..Len(parsed.packages) \ PopularPackages # {}

\* the lines of the manifest that are neither blank nor a comment, trimmed
RemainingLines ==
    SelectSeq([k \in 1..Len(split(manifest.content.text, "\n")) |->
                  strip(split(manifest.content.text, "\n")[k])],
              LAMBDA line : line # "" /\ ~StartsWith(line, "#"))

\* the text of a requirement line after its name and a leading run of the
\* characters =<>~!, <<>> when no such run follows the name
TextAfterSpecifier(line) ==
    LET rest == strip(SubSeq(line, LeadingRun(line, RequirementNameChars) + 1, Len(line)))
        j == LeadingRun(rest, "=<>~!")
    IN  IF j = 0 THEN <<>> ELSE <<SubSeq(rest, j + 1, Len(rest))>>

\* C19: parse_requirements_txt skips blank lines and lines starting with
\* '#', and for each remaining line yields one Package, in line order, whose
\* name is the lower-cased pkg name at the start of the line, whose
\* version is the text after a leading run of the characters =<>~! (no
\* version when there is no specifier) and whose source is requirements.txt;
\* 'Django==4.2.0', 'Flask>=2.3.0', '# comment' yields django and flask.
\* An empty text after the run may be reported as "" or as no version.
C19_OnePackagePerLine ==
    (parsed.called /\ manifest.filename = "requirements.txt") =>
        /\ parsed.raised = ""
        /\ Len(parsed.packages) = Len(RemainingLines)
        /\ \A k \in 1..Len(parsed.packages) :
              LET pkg == parsed.packages[k]
                  line == RemainingLines[k]
              IN  /\ pkg.name = lower(SubSeq(line, 1, LeadingRun(line, RequirementNameChars)))
                  /\ pkg.name # ""
                  /\ \/ pkg.version = TextAfterSpecifier(line)
                     \/ pkg.version = <<>> /\ TextAfterSpecifier(line) = <<"">>
                  /\ pkg.source = "requirements.txt"
        /\ manifest.content = Text("Django==4.2.0\nFlask>=2.3.0\n# comment\n") =>
              /\ Len(parsed.packages) = 2
              /\ parsed.packages[1].name = "django" /\ parsed.packages[1].version = <<"4.2.0">>
              /\ parsed.packages[2].name = "flask" /\ parsed.packages[2].version = <<"2.3.0">>

(***************************************************************************)
(* SkillsExtractionPipeline.process_manifest_files                         *)
(*                                                                         *)
(* A repository is the sequence of its files in the order rglob lists      *)
(* them; a file is [filename, readable, content], filename being the last  *)
(* component of its path.                                                  *)
(***************************************************************************)
manifest_patterns == <<"requirements.txt", "package.json", "pyproject.toml", "Cargo.toml", "go.mod">>

\* parser_func(content) for the parser manifest_patterns gives the filename,
\* and parse_dockerfile(content) for a Dockerfile
parser_func(filename, content) ==
    CASE filename = "requirements.txt" -> parse_requirements_txt(content)
      [] filename = "package.json" -> parse_package_json(content)
      [] filename = "pyproject.toml" -> parse_pyproject_toml(content)
      [] filename = "Cargo.toml" -> parse_cargo_toml(content)
      [] filename = "go.mod" -> parse_go_mod(content)
      [] filename = "Dockerfile" -> parse_dockerfile(content)

\* list(repo_path_obj.rglob(filename))
rglob(files, filename) == SelectSeq(files, LAMBDA file : file.filename = filename)

\* RepositoryManager.get_file_content: the content, or an HTTPException
get_file_content(file) ==
    IF file.readable THEN [raised |-> "", value |-> file.content]
    ELSE [raised |-> "HTTPException", value |-> Text("")]

\* the body of the try statement: read the file, parse it
try_file(file) ==
    LET content == get_file_content(file)
    IN  IF content.raised # "" THEN Raised(content.raised)
        ELSE parser_func(file.filename, content.value)

\* for file_path in file_paths: try: ... packages.extend(file_packages)
\*                              except Exception: logger.warning(...)
RECURSIVE parse_files(_, _)
parse_files(file_paths, packages) ==
    IF file_paths = <<>> THEN packages
    ELSE LET file_packages == try_file(Head(file_paths))
         IN  parse_files(Tail(file_paths),
                         IF file_packages.raised # "" THEN packages
                         ELSE packages \o file_packages.packages)

\* for filename, parser_func in manifest_patterns.items(): ...
RECURSIVE parse_manifests(_, _, _)
parse_manifests(files, patterns, packages) ==
    IF patterns = <<>> THEN packages
    ELSE parse_manifests(files, Tail(patterns),
                         parse_files(rglob(files, Head(patterns)), packages))

\* process_manifest_files without its except clauses: the first exception of
\* a read or of a parser leaves the function
process_manifest_files_unguarded(files) ==
    LET RECURSIVE Walk(_, _)
        Walk(file_paths, packages) ==
            IF file_paths = <<>> THEN [raised |-> "", packages |-> packages]
            ELSE LET file_packages == try_file(Head(file_paths))
                 IN  IF file_packages.raised # ""
                     THEN [raised |-> file_packages.raised, packages |-> <<>>]
                     ELSE Walk(Tail(file_paths), packages \o file_packages.packages)
    IN  Walk(rglob(files, "requirements.txt") \o rglob(files, "package.json")
               \o rglob(files, "pyproject.toml") \o rglob(files, "Cargo.toml")
               \o rglob(files, "go.mod") \o rglob(files, "Dockerfile"), <<>>)

process_manifest_files(files) ==
    LET packages == parse_manifests(files, manifest_patterns, <<>>)
    IN  [raised |-> "", packages |-> parse_files(rglob(files, "Dockerfile"), packages)]

File(filename, content) == [filename |-> filename, readable |-> TRUE, content |-> content]

Unreadable(filename) == [filename |-> filename, readable |-> FALSE, content |-> Text("")]

\* the files a repository is made of
RepoFiles ==
    {File("requirements.txt", Text("Django==4.2.0\n# comment\n")),
     Unreadable("requirements.txt"),
     File("package.json",
          Document(JObj(KV("dependencies", JObj(KV("React", JStr("^18.2.0"))))
                          \o KV("scripts", JObj(KV("test", JStr("jest"))))))),
     File("package.json", Malformed),
     File("package.json",
          Document(JObj(KV("dependencies", JObj(KV("react", JStr("^18.2.0")) \o KV("left-pad", JNum("1"))))))),
     File("pyproject.toml",
          Document(JObj(KV("project", JObj(KV("dependencies", JList(<<JStr("fastapi>=0.100")>>))))))),
     File("pyproject.toml",
          Document(JObj(KV("project", JObj(KV("dependencies", JList(<<JStr("flask<=3")>>))
                                            \o KV("optional-dependencies", JList(<<JStr("pytest")>>))))))),
     File("Cargo.toml",
          Document(JObj(KV("dependencies", JObj(KV("tokio", JStr("1"))))
                          \o KV("dev-dependencies", JList(<<JStr("criterion")>>))))),
     File("go.mod", Text("module app\nrequire gin v1.9.1\n")),
     File("Dockerfile", Text("FROM python:3.11\n")),
     File("setup.py", Text(""))}

InitPipeline ==
    /\ IdleProgress
    /\ IdleMapper
    /\ IdleDedup
    /\ IdleParser
    /\ IdleExtractor
    /\ IdleProcessing
    /\ IdleProjects
    /\ \E n \in 0..MaxFiles : repo \in [1..n -> RepoFiles]
    /\ processed = NotProcessed

ProcessManifestFiles ==
    /\ ~processed.called
    /\ LET result == process_manifest_files(repo)
       IN  processed' = [called |-> TRUE, raised |-> result.raised, packages |-> result.packages]
    /\ UNCHANGED repo
    /\ UNCHANGED exceptPipeline

NextPipeline == ProcessManifestFiles

SpecPipeline == InitPipeline /\ [][NextPipeline]_vars

\* the discovered files in the order they are processed
Discovered(files) ==
    rglob(files, "requirements.txt") \o rglob(files, "package.json")
      \o rglob(files, "pyproject.toml") \o rglob(files, "Cargo.toml")
      \o rglob(files, "go.mod") \o rglob(files, "Dockerfile")

RECURSIVE Flatten(_)
Flatten(lists) == IF lists = <<>> THEN <<>> ELSE Head(lists) \o Flatten(Tail(lists))

\* what reading and parsing each file on its own gives
Alone == [file \in {f \in RepoFiles : f.filename \in ManifestSources} |-> try_file(file)]

\* the read failed, or the parser raised
ReadOrParserRaised(file) == Alone[file].raised # ""

\* the parser caught a failure of its own and logged it
ParserWarned(file) == Alone[file].warned

\* C10, as stated: in process_manifest_files a discovered file whose read or
\* parse fails contributes zero packages and does not abort the run; every
\* other discovered file, processed before or after it, contributes all of
\* its packages, and process_manifest_files returns normally.
C10_FailedFileContributesNothing ==
    processed.called =>
        LET order == Discovered(repo)
            Contribution(file) ==
                IF ReadOrParserRaised(file) \/ ParserWarned(file) THEN <<>>
                ELSE Alone[file].packages
        IN  /\ processed.raised = ""
            /\ processed.packages = Flatten([i \in 1..Len(order) |-> Contribution(order[i])])

\* C10, amended: process_manifest_files always returns normally, and its
\* result is, in processing order, all the packages of every discovered file
\* whose read and parse succeed, nothing for a file whose read fails or whose
\* parser raises, nothing for a file that is not well-formed JSON or TOML,
\* and, for a file whose parser caught a failure part-way, the packages that
\* parser had read before the failure.
C10_FailureIsolated ==
    processed.called =>
        LET order == Discovered(repo)
            Contribution(file) ==
                IF ReadOrParserRaised(file) \/ file.content = Malformed THEN <<>>
                ELSE Alone[file].packages
        IN  /\ processed.raised = ""
            /\ processed.packages = Flatten([i \in 1..Len(order) |-> Contribution(order[i])])
            /\ \A i \in 1..Len(order) :
                 ~ReadOrParserRaised(order[i]) /\ ~ParserWarned(order[i])
                   => \A k \in 1..Len(Alone[order[i]].packages) :
                        \E j \in 1..Len(processed.packages) :
                          processed.packages[j] = Alone[order[i]].packages[k]

\* a failing file processed between two files that contribute packages
C10_Witness ==
    /\ processed.called
    /\ LET order == Discovered(repo)
       IN  /\ Len(order) = 3
           /\ ~ReadOrParserRaised(order[1]) /\ Alone[order[1]].packages # <<>>
           /\ ReadOrParserRaised(order[2])
           /\ ~ReadOrParserRaised(order[3]) /\ Alone[order[3]].packages # <<>>
    /\ processed.packages # <<>>

(***************************************************************************)
(* SkillMapper.deduplicate_skills                                          *)
(*                                                                         *)
(* Skill is a mutable dataclass and a Python list holds references: the    *)
(* caller's objects are the elements of the variable skills, and a list of *)
(* Skills is a sequence of positions in it.                                *)
(***************************************************************************)
MergeSourceAlways(existing_source, source) == existing_source \o ", " \o source

\* if skill.source not in existing.source: existing.source += f", {skill.source}"
MergeSource(existing_source, source) ==
    IF ~Contains(existing_source, source)
    THEN existing_source \o ", " \o source
    ELSE existing_source

\* max(a, b)
Max2(a, b) == IF a >= b THEN a ELSE b

RECURSIVE DedupLoop(_, _, _, _)
\* for skill in skills: ...   objs: the objects, skill_map: the dict's values in
\* insertion order (keyed by name), list: the argument, i: the loop position
DedupLoop(objs, skill_map, list, i) ==
    IF i > Len(list) THEN [objs |-> objs, out |-> skill_map]
    ELSE
        LET skill_ == list[i]
            found == {k \in 1..Len(skill_map) : objs[skill_map[k]].name = objs[skill_].name}
        IN  IF found # {} THEN
                LET existing == skill_map[CHOOSE k \in found : TRUE]
                    conf == Max2(objs[existing].confidence, objs[skill_].confidence)
                    objs1 == [objs EXCEPT ![existing].confidence = conf]
                    objs2 == [objs1 EXCEPT ![existing].source =
                                 MergeSource(objs1[existing].source, objs1[skill_].source)]
                IN  DedupLoop(objs2, skill_map, list, i + 1)
            ELSE DedupLoop(objs, Append(skill_map, skill_), list, i + 1)

deduplicate_skills_skip_first(objs, list) == DedupLoop(objs, <<>>, list, 2)

\* deduplicate_skills: the objects after the call and list(skill_map.values())
deduplicate_skills(objs, list) == DedupLoop(objs, <<>>, list, 1)

DedupNames == {"django", "react"}

DedupSources == {"requirements.txt", "pyproject.toml", "package.json"}

DedupConfidences == {800, 900}

SkillInputs ==
    [name : DedupNames, category : {"framework"}, confidence : DedupConfidences,
     source : DedupSources, aliases : {<<>>}]

\* the field values of the Skills of a list
Values(objs, list) == [k \in 1..Len(list) |-> objs[list[k]]]

InitDedup ==
    /\ IdleProgress
    /\ IdleMapper
    /\ IdleParser
    /\ IdlePipeline
    /\ IdleExtractor
    /\ IdleProcessing
    /\ IdleProjects
    /\ \E n \in 0..MaxSkills : skills \in [1..n -> SkillInputs]
    /\ skills_before = <<>>
    /\ deduplicated = NotCalled
    /\ returned = <<>>
    /\ again = NotCalled

\* deduplicated = await deduplicate_skills(skills)
Deduplicate ==
    /\ ~deduplicated.called
    /\ LET r == deduplicate_skills(skills, [k \in 1..Len(skills) |-> k])
       IN  /\ skills' = r.objs
           /\ skills_before' = skills
           /\ deduplicated' = [called |-> TRUE, value |-> r.out]
           /\ returned' = Values(r.objs, r.out)
    /\ UNCHANGED again
    /\ UNCHANGED exceptDedup

\* again = await deduplicate_skills(deduplicated)
DeduplicateAgain ==
    /\ deduplicated.called
    /\ ~again.called
    /\ LET r == deduplicate_skills(skills, deduplicated.value)
       IN  /\ skills' = r.objs
           /\ again' = [called |-> TRUE, value |-> Values(r.objs, r.out)]
    /\ UNCHANGED <<skills_before, deduplicated, returned>>
    /\ UNCHANGED exceptDedup

NextDedup ==
    \/ Deduplicate
    \/ DeduplicateAgain

SpecDedup == InitDedup /\ [][NextDedup]_vars

\* C5: deduplicate_skills is idempotent: deduplicating its result gives the
\* same names in the same order, each with the same confidence and source.
C5_DedupIdempotent ==
    again.called => again.value = returned

C5_Witness ==
    /\ again.called
    /\ Len(skills_before) = 3
    /\ Len(returned) = 2
    /\ \E k \in 1..2 : Contains(returned[k].source, ", ")

RECURSIVE DistinctInOrder(_)
\* the distinct elements of a sequence, each where it first appears
DistinctInOrder(seq) ==
    IF seq = <<>> THEN <<>>
    ELSE LET front == DistinctInOrder(SubSeq(seq, 1, Len(seq) - 1))
             last == seq[Len(seq)]
         IN  IF last \in Range(front) THEN front ELSE Append(front, last)

RECURSIVE CommaJoin(_)
\* ', '.join(seq)
CommaJoin(seq) ==
    IF seq = <<>> THEN ""
    ELSE IF Len(seq) = 1 THEN seq[1]
    ELSE seq[1] \o ", " \o CommaJoin(Tail(seq))

\* the positions of the input Skills named n, in list order
Group(n) == SelectSeq([i \in 1..Len(skills_before) |-> i], LAMBDA i : skills_before[i].name = n)

C7_DedupLeavesInputUnchanged ==
    deduplicated.called => skills = skills_before

(***************************************************************************)
(* TaskExtractor                                                           *)
(*                                                                         *)
(* A Task is [title, status, file_path, line_number, priority,             *)
(* description]; an Optional value is <<>> for None and <<v>> otherwise.   *)
(***************************************************************************)
\* checkbox_patterns, in the order of the dict display: the marker between
\* the brackets of r'- \[m\] (.+)' and the status
checkbox_patterns ==
    <<[marker |-> " ", status |-> "todo"], [marker |-> "x", status |-> "done"],
      [marker |-> "~", status |-> "doing"], [marker |-> "!", status |-> "blocked"],
      [marker |-> "X", status |-> "done"], [marker |-> "-", status |-> "doing"]>>

\* the alternatives of (high|medium|low|urgent|critical)
priority_words == <<"high", "medium", "low", "urgent", "critical">>

\* the three tag patterns around one word: r'\[w\]', r'\(w\)', r'#w'
Tag(kind, word) ==
    CASE kind = 1 -> "[" \o word \o "]"
      [] kind = 2 -> "(" \o word \o ")"
      [] kind = 3 -> "#" \o word

\* re.search(pattern, title, re.IGNORECASE) for the tag pattern of one kind:
\* [start, word] of the leftmost match, start = 0 when there is none
SearchTag(title, kind) ==
    LET low == lower(title)
        at(w) == Find(low, Tag(kind, priority_words[w]))
        hits == {w \in 1..Len(priority_words) : at(w) > 0}
    IN  IF hits = {} THEN [start |-> 0, word |-> ""]
        ELSE LET w == CHOOSE h \in hits : \A o \in hits : at(h) <= at(o)
             IN  [start |-> at(w), word |-> priority_words[w]]

RECURSIVE RemoveTags(_, _)
\* re.sub(pattern, '', text, flags=re.IGNORECASE) for the tag pattern of one kind
RemoveTags(text, kind) ==
    LET hit == SearchTag(text, kind)
        after == hit.start + Len(Tag(kind, hit.word))
    IN  IF hit.start = 0 THEN text
        ELSE SubSeq(text, 1, hit.start - 1) \o RemoveTags(SubSeq(text, after, Len(text)), kind)

\* the three re.sub calls that remove the priority tags
RemovePriorityTags(text) == RemoveTags(RemoveTags(RemoveTags(text, 1), 2), 3)

extract_priority(title) ==
    LET hit(kind) == SearchTag(title, kind)
    IN  IF hit(1).start > 0 THEN <<hit(1).word>>
        ELSE IF hit(2).start > 0 THEN <<hit(2).word>>
        ELSE IF hit(3).start > 0 THEN <<hit(3).word>>
        ELSE <<>>

\* re.search(r'^[^c]+c\s*(.+)', title): group 1, or <<>> for no match
AfterSeparator(title, c) ==
    LET i == Find(title, c)
        rest == SubSeq(title, i + 1, Len(title))
        blank == LeadingRun(rest, Whitespace)
    IN  IF i < 2 \/ rest = "" THEN <<>>
        ELSE IF blank = Len(rest) THEN <<SubSeq(rest, Len(rest), Len(rest))>>
        ELSE <<SubSeq(rest, blank + 1, Len(rest))>>

extract_description(title) ==
    LET colon == AfterSeparator(title, ":")
        dash == AfterSeparator(title, "-")
        group == IF colon # <<>> THEN colon ELSE dash
    IN  IF group = <<>> THEN <<>>
        ELSE <<strip(RemovePriorityTags(strip(group[1])))>>

\* re.sub(r'c\s*.*$', '', title)
CutAt(title, c) ==
    LET i == Find(title, c)
    IN  IF i = 0 THEN title ELSE SubSeq(title, 1, i - 1)

\* _clean_title without the removal of the part after a dash
clean_title_colon_only(title) == strip(CutAt(RemovePriorityTags(title), ":"))

\* _clean_title
clean_title(title) == strip(CutAt(CutAt(RemovePriorityTags(title), ":"), "-"))

NewTask(title, status, file_path, line_number, priority, description) ==
    [title |-> title, status |-> status, file_path |-> file_path,
     line_number |-> line_number, priority |-> priority, description |-> description]

\* for pattern, status in self.checkbox_patterns.items(): re.match(pattern, line) ... break
checkbox_task(line, line_num, file_path) ==
    LET matches == {k \in 1..Len(checkbox_patterns) :
                      /\ StartsWith(line, "- [" \o checkbox_patterns[k].marker \o "] ")
                      /\ Len(line) > 6}
    IN  IF matches = {} THEN <<>>
        ELSE LET title == strip(SubSeq(line, 7, Len(line)))
             IN  <<NewTask(clean_title(title), checkbox_patterns[SetMin(matches)].status,
                           file_path, <<line_num>>,
                           extract_priority(title), extract_description(title))>>

\* parse_checkbox_tasks with enumerate(lines) in place of enumerate(lines, 1)
parse_checkbox_tasks_from_zero(content, file_path) ==
    LET lines == split(content.text, "\n")
        RECURSIVE Lines(_)
        Lines(n) == IF n = 0 THEN <<>>
                    ELSE Lines(n - 1) \o checkbox_task(strip(lines[n]), n - 1, file_path)
    IN  Lines(Len(lines))

parse_checkbox_tasks(content, file_path) ==
    LET lines == split(content.text, "\n")
        RECURSIVE Lines(_)
        Lines(n) == IF n = 0 THEN <<>>
                    ELSE Lines(n - 1) \o checkbox_task(strip(lines[n]), n, file_path)
    IN  Lines(Len(lines))

\* self.md.parse(content): markdown-it's flat token stream.  Of its tokens
\* the code reads type and children; children is None (<<>>) for every token
\* but an inline one, and a table the table rule recognises opens with a
\* table_open token.
md_parse(content) ==
    LET table == <<[type |-> "table_open", children |-> <<>>],
                   [type |-> "table_close", children |-> <<>>]>>
        RECURSIVE Tokens(_)
        Tokens(n) == IF n = 0 THEN <<>> ELSE Tokens(n - 1) \o table
    IN  Tokens(Len(content.tables))

\* _find_column_index, 0-based
find_column_index(header, possible_names) ==
    LET found == {i \in 1..Len(header) : ContainsAny(lower(header[i]), possible_names)}
    IN  IF found = {} THEN 0 ELSE SetMin(found) - 1

status_mapping ==
    <<<<"done", "done">>, <<"completed", "done">>, <<"finished", "done">>,
      <<"complete", "done">>, <<"todo", "todo">>, <<"pending", "todo">>,
      <<"not started", "todo">>, <<"doing", "doing">>, <<"in progress", "doing">>,
      <<"working", "doing">>, <<"blocked", "blocked">>, <<"stuck", "blocked">>,
      <<"waiting", "blocked">>>>

\* _map_status_text
map_status_text(status_text) ==
    LET key == strip(lower(status_text))
        found == {k \in 1..Len(status_mapping) : status_mapping[k][1] = key}
    IN  IF found = {} THEN "todo" ELSE status_mapping[CHOOSE k \in found : TRUE][2]

\* the rows of _extract_tasks_from_table: for each tr_open child the stripped
\* content of its td_open children, when there is any
table_rows(children) ==
    LET row(child) ==
            LET cells == SelectSeq(child.children, LAMBDA cell : cell.type = "td_open")
            IN  [k \in 1..Len(cells) |-> strip(cells[k].content)]
        trs == SelectSeq(children, LAMBDA child : child.type = "tr_open")
    IN  SelectSeq([k \in 1..Len(trs) |-> row(trs[k])], LAMBDA r : r # <<>>)

\* _extract_tasks_from_table: iterating table_token.children raises TypeError
\* when it is None, and the function's except clause returns the empty list
extract_tasks_from_table(table_token, file_path) ==
    IF table_token.children = <<>> THEN <<>>
    ELSE LET rows == table_rows(table_token.children[1])
             header == rows[1]
             task_col == find_column_index(header, <<"task", "title", "description", "item">>)
             status_col == find_column_index(header, <<"status", "state", "progress">>)
             priority_col == find_column_index(header, <<"priority", "importance">>)
             RECURSIVE Rows(_)
             Rows(n) ==
                 IF n = 1 THEN <<>>
                 ELSE LET r == rows[n]
                      IN  Rows(n - 1) \o
                          (IF Len(r) <= SetMax({task_col, status_col, priority_col}) THEN <<>>
                           ELSE IF r[task_col + 1] = "" THEN <<>>
                           ELSE <<NewTask(strip(r[task_col + 1]), map_status_text(r[status_col + 1]),
                                          file_path, <<>>,
                                          IF r[priority_col + 1] # ""
                                          THEN <<strip(r[priority_col + 1])>> ELSE <<>>,
                                          <<>>)>>)
         IN  IF Len(rows) < 2 THEN <<>> ELSE Rows(Len(rows))

parse_table_tasks(content, file_path) ==
    LET tokens == md_parse(content)
        RECURSIVE Tokens(_)
        Tokens(n) ==
            IF n = 0 THEN <<>>
            ELSE Tokens(n - 1) \o (IF tokens[n].type = "table_open"
                                   THEN extract_tasks_from_table(tokens[n], file_path)
                                   ELSE <<>>)
    IN  Tokens(Len(tokens))

\* the longest title validate_task accepts
max_title_length == 500

validate_task(task) ==
    /\ task.title # ""
    /\ strip(task.title) # ""
    /\ task.status \in {"todo", "doing", "done", "blocked"}
    /\ Len(task.title) <= max_title_length

\* extract_tasks_from_markdown without the seen_titles test
extract_tasks_keep_duplicates(content, file_path) ==
    SelectSeq(parse_checkbox_tasks(content, file_path) \o parse_table_tasks(content, file_path),
              validate_task)

\* extract_tasks_from_markdown without the validate_task test
extract_tasks_unvalidated(content, file_path) ==
    LET candidates == parse_checkbox_tasks(content, file_path) \o parse_table_tasks(content, file_path)
        first == SelectSeq([k \in 1..Len(candidates) |-> k],
                           LAMBDA k : \A j \in 1..(k - 1) : candidates[j].title # candidates[k].title)
    IN  [k \in 1..Len(first) |-> candidates[first[k]]]

extract_tasks_from_markdown(content, file_path) ==
    LET candidates == parse_checkbox_tasks(content, file_path) \o parse_table_tasks(content, file_path)
        RECURSIVE Valid(_)
        \* valid_tasks after the first n candidates
        Valid(n) ==
            IF n = 0 THEN <<>>
            ELSE LET valid_tasks == Valid(n - 1)
                     seen_titles == {valid_tasks[k].title : k \in 1..Len(valid_tasks)}
                 IN  IF validate_task(candidates[n]) /\ candidates[n].title \notin seen_titles
                     THEN Append(valid_tasks, candidates[n])
                     ELSE valid_tasks
    IN  Valid(Len(candidates))

\* the lines plan files are made of
PlanLines ==
    <<"- [ ] Task 1", "- [x] Ship release", "  - [X] task 1  ", "- [~] Write docs",
      "- [-] Task 1", "- [!] Blocked task", "- [x] Deploy [HIGH]: to prod",
      "- [ ] - nothing", "- [x]", "* [x] Not a task", "- [y] Fix", "# Plan">>

RECURSIVE Repeat(_, _)
Repeat(text, n) ==
    IF n = 0 THEN ""
    ELSE IF n % 2 = 1 THEN text \o Repeat(text, n - 1)
    ELSE LET half == Repeat(text, n \div 2) IN half \o half

RECURSIVE JoinLines(_)
\* '\n'.join(lines)
JoinLines(lines) ==
    IF lines = <<>> THEN ""
    ELSE IF Len(lines) = 1 THEN lines[1]
    ELSE lines[1] \o "\n" \o JoinLines(Tail(lines))

DeployTable == <<<<"Task", "Status", "Priority">>, <<"Deploy", "In Progress", "High">>>>

DeployTableText == "| Task | Status | Priority |\n|------|--------|----------|\n| Deploy | In Progress | High |"

\* the plan files: every text of up to MaxLines of the lines above, the
\* documents of tests/test_phase2.py, and titles around the length limit
PlanContents ==
    {Markdown(JoinLines(lines), <<>>) :
        lines \in UNION {[1..n -> Range(PlanLines)] : n \in 0..MaxLines}}
    \cup
    {Markdown(DeployTableText, <<DeployTable>>),
     Markdown("- [x] Deploy\n\n" \o DeployTableText \o "\n- [ ] Deploy", <<DeployTable>>),
     Markdown("\n# Project Tasks\n\n| Task | Status | Priority |\n|------|--------|----------|\n| Setup project | Done | High |\n| Implement API | In Progress | Medium |\n| Write tests | Todo | Low |\n        ",
              <<<<<<"Task", "Status", "Priority">>, <<"Setup project", "Done", "High">>,
                  <<"Implement API", "In Progress", "Medium">>, <<"Write tests", "Todo", "Low">>>>>>),
     Markdown("- [ ] Task 1\n- [x] Task 2\n\n| Task | Status |\n|------|--------|\n| Task 3 | Done |\n| Task 4 | Todo |",
              <<<<<<"Task", "Status">>, <<"Task 3", "Done">>, <<"Task 4", "Todo">>>>>>),
     Markdown("- [-] Task 1\n- [ ] Task 1\n  - [X] task 1  ", <<>>),
     Markdown("- [x] Ship release\n- [ ] " \o Repeat("a", max_title_length) \o "\n- [~] Write docs", <<>>),
     Markdown("- [x] Ship release\n- [ ] " \o Repeat("a", max_title_length + 1) \o "\n- [~] Write docs", <<>>),
     Markdown("- [ ] Fix bug - urgent fix needed\n- [x] Fix (HIGH)[low] x", <<>>),
     Markdown("- [ ] Fix [hi[low]gh] bug", <<>>)}

InitExtractor ==
    /\ IdleProgress
    /\ IdleMapper
    /\ IdleDedup
    /\ IdleParser
    /\ IdlePipeline
    /\ IdleProcessing
    /\ IdleProjects
    /\ markdown \in [content : PlanContents, file_path : {<<>>, <<"docs/plan.md">>}]
    /\ extracted = NotExtracted

ParseCheckboxTasks ==
    /\ extracted = NotExtracted
    /\ extracted' = [op |-> "parse_checkbox_tasks",
                     tasks |-> parse_checkbox_tasks(markdown.content, markdown.file_path)]
    /\ UNCHANGED markdown
    /\ UNCHANGED exceptExtractor

ParseTableTasks ==
    /\ extracted = NotExtracted
    /\ extracted' = [op |-> "parse_table_tasks",
                     tasks |-> parse_table_tasks(markdown.content, markdown.file_path)]
    /\ UNCHANGED markdown
    /\ UNCHANGED exceptExtractor

ExtractTasksFromMarkdown ==
    /\ extracted = NotExtracted
    /\ extracted' = [op |-> "extract_tasks_from_markdown",
                     tasks |-> extract_tasks_from_markdown(markdown.content, markdown.file_path)]
    /\ UNCHANGED markdown
    /\ UNCHANGED exceptExtractor

NextExtractor ==
    \/ ParseCheckboxTasks
    \/ ParseTableTasks
    \/ ExtractTasksFromMarkdown

SpecExtractor == InitExtractor /\ [][NextExtractor]_vars

\* the lines of the content, trimmed
TrimmedLines ==
    LET lines == split(markdown.content.text, "\n")
    IN  [n \in 1..Len(lines) |-> strip(lines[n])]

\* a trimmed line of the form '- [m] text'
IsCheckboxLine(line) ==
    /\ Len(line) >= 7
    /\ SubSeq(line, 1, 3) = "- ["
    /\ CharAt(line, 4) \in {" ", "x", "X", "~", "-", "!"}
    /\ SubSeq(line, 5, 6) = "] "

MarkerStatus(marker) ==
    CASE marker = " " -> "todo"
      [] marker \in {"x", "X"} -> "done"
      [] marker \in {"~", "-"} -> "doing"
      [] marker = "!" -> "blocked"

\* C14: every line that, after trimming, has the form '- [m] text' with m one
\* of space, x, X, ~, -, ! yields exactly one Task of parse_checkbox_tasks,
\* with status todo, done, done, doing, doing, blocked respectively, the
\* 1-indexed line as line_number and the title taken from text ("- [x] Ship
\* release" gives "Ship release", done); no other line yields a task, and the
\* tasks are in line order.
C14_CheckboxTasks ==
    extracted.op = "parse_checkbox_tasks" =>
        LET lines == TrimmedLines
            boxes == SelectSeq([n \in 1..Len(lines) |-> n],
                               LAMBDA n : IsCheckboxLine(lines[n]))
        IN  /\ Len(extracted.tasks) = Len(boxes)
            /\ \A k \in 1..Len(boxes) :
                 LET line == lines[boxes[k]]
                     task == extracted.tasks[k]
                 IN  /\ task.line_number = <<boxes[k]>>
                     /\ task.status = MarkerStatus(CharAt(line, 4))
                     /\ task.title = clean_title(strip(SubSeq(line, 7, Len(line))))
                     /\ task.file_path = markdown.file_path
                     /\ line = "- [x] Ship release" => task.title = "Ship release" /\ task.status = "done"

\* a checkbox line after a line that is none
C14_Witness ==
    /\ extracted.op = "parse_checkbox_tasks"
    /\ Len(TrimmedLines) = 2
    /\ ~IsCheckboxLine(TrimmedLines[1])
    /\ TrimmedLines[2] = "- [x] Ship release"
    /\ Len(extracted.tasks) = 1
    /\ extracted.tasks[1].line_number = <<2>>

\* the header names a task, a status and a priority column
NamesColumns(header) ==
    /\ \E i \in 1..Len(header) : ContainsAny(lower(header[i]), <<"task", "title", "description", "item">>)
    /\ \E i \in 1..Len(header) : ContainsAny(lower(header[i]), <<"status", "state", "progress">>)
    /\ \E i \in 1..Len(header) : ContainsAny(lower(header[i]), <<"priority", "importance">>)

\* one Task per data row with a non-empty task cell
TableTasks(table) ==
    LET header == table[1]
        task_col == find_column_index(header, <<"task", "title", "description", "item">>) + 1
        status_col == find_column_index(header, <<"status", "state", "progress">>) + 1
        priority_col == find_column_index(header, <<"priority", "importance">>) + 1
        rows == SelectSeq(Tail(table), LAMBDA row : row[task_col] # "")
    IN  [k \in 1..Len(rows) |->
            NewTask(rows[k][task_col], map_status_text(rows[k][status_col]),
                    markdown.file_path, <<>>, <<rows[k][priority_col]>>, <<>>)]

\* C15: for a content with a table whose header names a task, a status and a
\* priority column, parse_table_tasks yields one Task per data row with a
\* non-empty task cell, in row order, with the task cell as title, the status
\* cell mapped through the fixed vocabulary and the priority cell as written:
\* header 'Task | Status | Priority' with row 'Deploy | In Progress | High'
\* gives exactly one Task{Deploy, doing, High}.
C15_TableTasks ==
    (/\ extracted.op = "parse_table_tasks"
     /\ \A t \in 1..Len(markdown.content.tables) : NamesColumns(markdown.content.tables[t][1]))
    => extracted.tasks
         = Flatten([t \in 1..Len(markdown.content.tables) |-> TableTasks(markdown.content.tables[t])])

\* the candidates extract_tasks_from_markdown validates: all checkbox tasks,
\* then all table tasks
Candidates ==
    parse_checkbox_tasks(markdown.content, markdown.file_path)
      \o parse_table_tasks(markdown.content, markdown.file_path)

IsValidTask(task) ==
    /\ strip(task.title) # ""
    /\ Len(task.title) <= 500
    /\ task.status \in TaskStatusSet

\* C16: every Task extract_tasks_from_markdown returns has a title that is
\* non-empty after trimming and at most 500 characters long and a status among
\* todo, doing, done, blocked; a candidate failing a check is dropped silently,
\* and the other candidates are still returned.
C16_OnlyValidTasks ==
    extracted.op = "extract_tasks_from_markdown" =>
        LET candidates == Candidates
        IN  /\ \A k \in 1..Len(extracted.tasks) : IsValidTask(extracted.tasks[k])
            /\ \A c \in 1..Len(candidates) :
                 IsValidTask(candidates[c])
                   => \E k \in 1..Len(extracted.tasks) : extracted.tasks[k].title = candidates[c].title

\* a title of 501 characters is dropped between two tasks that are returned
C16_Witness ==
    /\ extracted.op = "extract_tasks_from_markdown"
    /\ Len(Candidates) = 3
    /\ Len(Candidates[2].title) = 501
    /\ Len(extracted.tasks) = 2
    /\ extracted.tasks[1].title = "Ship release"
    /\ extracted.tasks[2].title = "Write docs"

CapturedTexts ==
    LET lines == TrimmedLines
        boxes == SelectSeq([n \in 1..Len(lines) |-> n], LAMBDA n : IsCheckboxLine(lines[n]))
    IN  [k \in 1..Len(boxes) |-> strip(SubSeq(lines[boxes[k]], 7, Len(lines[boxes[k]])))]

\* text has an occurrence of [p], (p) or #p, in any letter case
HasPriorityTag(text) ==
    \E kind \in 1..3, w \in 1..Len(priority_words) :
        Contains(lower(text), Tag(kind, priority_words[w]))

\* C24: for every checkbox task and every captured text, the cleaned title
\* contains no priority tag, i.e. no occurrence of [p], (p) or #p with p in
\* high|medium|low|urgent|critical in any letter case, including tags that
\* only become adjacent after another tag has been removed.
C24_NoPriorityTagInTitle ==
    extracted.op = "parse_checkbox_tasks" =>
        \A k \in 1..Len(extracted.tasks) : ~HasPriorityTag(extracted.tasks[k].title)

\* C25: for every checkbox task, the title is the trimmed text that precedes
\* the first ':' or '-' of the captured text after priority tags are removed
\* (the whole text when it has neither); hence no checkbox-task title
\* contains ':' or '-', and 'Fix bug - urgent fix needed' yields 'Fix bug'.
C25_TitleBeforeSeparator ==
    extracted.op = "parse_checkbox_tasks" =>
        LET captured == CapturedTexts
        IN  /\ Len(extracted.tasks) = Len(captured)
            /\ \A k \in 1..Len(captured) :
                 LET text == RemovePriorityTags(captured[k])
                     separators == {i \in 1..Len(text) : CharAt(text, i) \in {":", "-"}}
                     before == IF separators = {} THEN text
                               ELSE SubSeq(text, 1, SetMin(separators) - 1)
                     title == extracted.tasks[k].title
                 IN  /\ title = strip(before)
                     /\ \A i \in 1..Len(title) : CharAt(title, i) \notin {":", "-"}
                     /\ captured[k] = "Fix bug - urgent fix needed" => title = "Fix bug"

\* the example of the claim, and a title cut after its tags were removed
C25_Witness ==
    /\ extracted.op = "parse_checkbox_tasks"
    /\ markdown.content.text = "- [ ] Fix bug - urgent fix needed\n- [x] Fix (HIGH)[low] x"
    /\ Len(extracted.tasks) = 2
    /\ extracted.tasks[1].title = "Fix bug"
    /\ extracted.tasks[2].title = "Fix  x"

(***************************************************************************)
(* RepositoryManager                                                       *)
(*                                                                         *)
(* The file system is the directories under temp_dir that clone_repository *)
(* names: each is <<>> (absent) or <<files>>, files giving for each plan   *)
(* location what is there: nothing, a regular file, a regular file that    *)
(* open() refuses, or a directory, and the content of a file.              *)
(* An HTTPException is [status_code, detail], the detail without the       *)
(* interpolated text of its cause.                                         *)
(***************************************************************************)
temp_dir == "/tmp"

\* str(os.getpid()): all calls are made in one server process
pid == "7"

plan_locations == <<"docs/plan.md", "plan.md", "README.md">>

PlanLocationSet == {plan_locations[k] : k \in 1..Len(plan_locations)}

FileKinds == {"absent", "file", "unreadable", "directory"}

HTTPException(status_code, detail) ==
    [type |-> "HTTPException", status_code |-> status_code, detail |-> detail]

RECURSIVE replace(_, _, _)
\* s.replace(old, new)
replace(s, old, new) ==
    LET i == Find(s, old)
    IN  IF i = 0 THEN s
        ELSE SubSeq(s, 1, i - 1) \o new \o replace(SubSeq(s, i + Len(old), Len(s)), old, new)

\* Path(a) / b
JoinPath(a, b) == IF StartsWith(b, "/") THEN b ELSE a \o "/" \o b

\* temp_path of clone_repository
clone_path(repo_url) ==
    LET repo_name == replace(Last(split(repo_url, "/")), ".git", "")
    IN  JoinPath(temp_dir, "repotrackr_" \o repo_name \o "_" \o pid)

\* what is at a path of the file system
Stat(fs, path) ==
    LET at == {<<d, l>> \in (DOMAIN fs) \X PlanLocationSet : fs[d] # <<>> /\ JoinPath(d, l) = path}
    IN  IF at = {} THEN [kind |-> "absent", content |-> Markdown("", <<>>)]
        ELSE LET dl == CHOOSE dl \in at : TRUE IN fs[dl[1]][1][dl[2]]

\* file_path.exists() and file_path.is_file()
IsFile(fs, path) == Stat(fs, path).kind \in {"file", "unreadable"}

\* discover_plan_file with the locations tried from the last to the first
discover_plan_file_reversed(fs, repo_path) ==
    LET hits == {k \in 1..Len(plan_locations) : IsFile(fs, JoinPath(repo_path, plan_locations[k]))}
    IN  IF hits = {} THEN <<>> ELSE <<JoinPath(repo_path, plan_locations[SetMax(hits)])>>

\* discover_plan_file: str(file_path) of the first location that is a file, or None
discover_plan_file(fs, repo_path) ==
    LET hits == {k \in 1..Len(plan_locations) : IsFile(fs, JoinPath(repo_path, plan_locations[k]))}
    IN  IF hits = {} THEN <<>> ELSE <<JoinPath(repo_path, plan_locations[SetMin(hits)])>>

\* get_file_content(repo_path, file_path): the content, or the HTTPException
\* raised (the 404 for a missing file is raised inside the try statement,
\* whose except Exception clause turns it into a 500)
read_file_content(fs, repo_path, file_path) ==
    LET file == Stat(fs, JoinPath(repo_path, file_path))
    IN  IF file.kind = "file" THEN [raised |-> <<>>, value |-> <<file.content>>]
        ELSE [raised |-> <<HTTPException(500, "Failed to read file")>>, value |-> <<>>]

\* the content of the file a checkout has at each plan location
LocationContent(location) ==
    CASE location = "docs/plan.md" -> Markdown("- [x] Ship release\n- [ ] Task 1", <<>>)
      [] location = "plan.md" -> Markdown("- [x] Deploy", <<>>)
      [] location = "README.md" -> Markdown("# Plan", <<>>)

\* a checkout whose plan locations hold what kinds says
Checkout(kinds) ==
    [l \in PlanLocationSet |-> [kind |-> kinds[l],
                                content |-> IF kinds[l] \in {"file", "unreadable"}
                                            THEN LocationContent(l) ELSE Markdown("", <<>>)]]

Checkouts == {Checkout(kinds) : kinds \in [PlanLocationSet -> FileKinds]}

\* the repo_url of the stored projects (a unique column)
RepoUrlList ==
    <<"https://h/alice/app.git", "https://h/bob/app", "https://h/bob/site.git",
      "https://h/eve/site", "https://h/eve/gone">>

RepoUrls == {RepoUrlList[k] : k \in 1..Len(RepoUrlList)}

RepoPaths == {clone_path(repo_url) : repo_url \in RepoUrls}

\* what Repo.clone_from finds at a URL: <<files>>, or <<>> when git fails
Remote(repo_url) ==
    CASE repo_url = "https://h/alice/app.git" ->
             <<Checkout([l \in PlanLocationSet |-> IF l = "plan.md" THEN "absent" ELSE "file"])>>
      [] repo_url = "https://h/bob/app" ->
             <<Checkout([l \in PlanLocationSet |-> IF l = "plan.md" THEN "file" ELSE "absent"])>>
      [] repo_url = "https://h/bob/site.git" ->
             <<Checkout([l \in PlanLocationSet |-> IF l = "README.md" THEN "directory" ELSE "absent"])>>
      [] repo_url = "https://h/eve/site" ->
             <<Checkout([l \in PlanLocationSet |-> IF l = "plan.md" THEN "unreadable" ELSE "absent"])>>
      [] repo_url = "https://h/eve/gone" -> <<>>

\* a directory with nothing at the plan locations
EmptyDirectory == Checkout([l \in PlanLocationSet |-> "absent"])

\* clone_repository that keeps a directory it finds at temp_path
clone_repository_reusing(fs, repo_url) ==
    LET temp_path == clone_path(repo_url)
    IN  IF fs[temp_path] # <<>>
        THEN [raised |-> <<>>, repo_path |-> temp_path, fs |-> fs,
              repo_cache |-> {<<repo_url, temp_path>>}]
        ELSE IF Remote(repo_url) = <<>>
        THEN [raised |-> <<HTTPException(400, "Failed to clone repository")>>,
              repo_path |-> temp_path, fs |-> [fs EXCEPT ![temp_path] = <<EmptyDirectory>>],
              repo_cache |-> {}]
        ELSE [raised |-> <<>>, repo_path |-> temp_path,
              fs |-> [fs EXCEPT ![temp_path] = Remote(repo_url)],
              repo_cache |-> {<<repo_url, temp_path>>}]

\* clone_repository of a new RepositoryManager (repo_cache = {}): temp_path is
\* removed, made anew and cloned into; a clone that succeeded is entered in
\* repo_cache, a clone that failed leaves the directory it made
clone_repository(fs, repo_url) ==
    LET temp_path == clone_path(repo_url)
    IN  IF Remote(repo_url) = <<>>
        THEN [raised |-> <<HTTPException(400, "Failed to clone repository")>>,
              repo_path |-> temp_path, fs |-> [fs EXCEPT ![temp_path] = <<EmptyDirectory>>],
              repo_cache |-> {}]
        ELSE [raised |-> <<>>, repo_path |-> temp_path,
              fs |-> [fs EXCEPT ![temp_path] = Remote(repo_url)],
              repo_cache |-> {<<repo_url, temp_path>>}]

\* cleanup_repository: the directory is removed
cleanup_repository(fs, repo_path) == [fs EXCEPT ![repo_path] = <<>>]

\* cleanup_repository: the entries of repo_cache for a directory that existed
\* are removed
cleanup_repo_cache(fs, repo_cache, repo_path) ==
    IF fs[repo_path] # <<>> THEN {entry \in repo_cache : entry[2] # repo_path}
    ELSE repo_cache

\* clone_and_parse reading the file at plan_path when the checkout has one
clone_and_parse_at_plan_path(fs, repo_url, plan_path) ==
    LET clone == clone_repository(fs, repo_url)
        repo_path == clone.repo_path
        discovered_plan_path == IF IsFile(clone.fs, JoinPath(repo_path, plan_path))
                                THEN <<JoinPath(repo_path, plan_path)>>
                                ELSE discover_plan_file(clone.fs, repo_path)
        content == read_file_content(clone.fs, repo_path, discovered_plan_path[1])
        cleaned == [fs |-> cleanup_repository(clone.fs, repo_path),
                    repo_cache |-> cleanup_repo_cache(clone.fs, clone.repo_cache, repo_path)]
    IN  IF clone.raised # <<>>
        THEN [raised |-> clone.raised, tasks |-> <<>>, fs |-> clone.fs,
              repo_cache |-> clone.repo_cache]
        ELSE IF discovered_plan_path = <<>>
        THEN [raised |-> <<HTTPException(404, "No plan file found in repository")>>,
              tasks |-> <<>>, fs |-> cleaned.fs, repo_cache |-> cleaned.repo_cache]
        ELSE IF content.raised # <<>>
        THEN [raised |-> content.raised, tasks |-> <<>>,
              fs |-> cleaned.fs, repo_cache |-> cleaned.repo_cache]
        ELSE [raised |-> <<>>,
              tasks |-> extract_tasks_from_markdown(content.value[1], discovered_plan_path),
              fs |-> clone.fs, repo_cache |-> clone.repo_cache]

\* PlanProcessingPipeline.clone_and_parse(repo_url, plan_path): the tasks or
\* the exception, and the file system it leaves; plan_path is not read
clone_and_parse(fs, repo_url, plan_path) ==
    LET clone == clone_repository(fs, repo_url)
        repo_path == clone.repo_path
        discovered_plan_path == discover_plan_file(clone.fs, repo_path)
        content == read_file_content(clone.fs, repo_path, discovered_plan_path[1])
        cleaned == [fs |-> cleanup_repository(clone.fs, repo_path),
                    repo_cache |-> cleanup_repo_cache(clone.fs, clone.repo_cache, repo_path)]
    IN  IF clone.raised # <<>>
        THEN [raised |-> clone.raised, tasks |-> <<>>, fs |-> clone.fs,
              repo_cache |-> clone.repo_cache]
        ELSE IF discovered_plan_path = <<>>
        THEN [raised |-> <<HTTPException(404, "No plan file found in repository")>>,
              tasks |-> <<>>, fs |-> cleaned.fs, repo_cache |-> cleaned.repo_cache]
        ELSE IF content.raised # <<>>
        THEN [raised |-> content.raised, tasks |-> <<>>,
              fs |-> cleaned.fs, repo_cache |-> cleaned.repo_cache]
        ELSE [raised |-> <<>>,
              tasks |-> extract_tasks_from_markdown(content.value[1], discovered_plan_path),
              fs |-> clone.fs, repo_cache |-> clone.repo_cache]

\* the plan_path a stored project can have ("docs/plan.md" is the default)
PlanPaths == {"docs/plan.md", "plan.md", "README.md", "TODO.md"}

InitRepository ==
    /\ IdleProgress
    /\ IdleMapper
    /\ IdleDedup
    /\ IdleParser
    /\ IdlePipeline
    /\ IdleExtractor
    /\ IdleProjects
    /\ \E repo_path \in RepoPaths, files \in Checkouts :
         filesystem = [d \in RepoPaths |-> IF d = repo_path THEN <<files>> ELSE <<>>]
    /\ lookup = NoLookup
    /\ database = <<>>
    /\ runs = <<>>

DiscoverPlanFile ==
    /\ lookup.op = ""
    /\ \E repo_path \in RepoPaths :
         lookup' = [op |-> "discover_plan_file", repo_path |-> repo_path,
                    repo_url |-> "", plan_path |-> "", raised |-> <<>>,
                    value |-> discover_plan_file(filesystem, repo_path)]
    /\ UNCHANGED <<filesystem, database, runs>>
    /\ UNCHANGED exceptProcessing

GetFileContent ==
    /\ lookup.op = ""
    /\ \E repo_path \in RepoPaths, location \in PlanLocationSet :
       \E file_path \in {location, JoinPath(repo_path, location)} :
         LET content == read_file_content(filesystem, repo_path, file_path)
         IN  lookup' = [op |-> "get_file_content", repo_path |-> repo_path,
                        repo_url |-> "", plan_path |-> "",
                        raised |-> content.raised, value |-> content.value]
    /\ UNCHANGED <<filesystem, database, runs>>
    /\ UNCHANGED exceptProcessing

\* clone_and_parse(repo_url, plan_path), called with a directory left under temp_dir
CallCloneAndParse ==
    /\ lookup.op = ""
    /\ \E repo_url \in RepoUrls, plan_path \in PlanPaths :
       \E parse \in {clone_and_parse(filesystem, repo_url, plan_path)} :
         /\ filesystem' = parse.fs
         /\ lookup' = [op |-> "clone_and_parse", repo_path |-> clone_path(repo_url),
                        repo_url |-> repo_url, plan_path |-> plan_path,
                        raised |-> parse.raised, value |-> parse.tasks]
    /\ UNCHANGED <<database, runs>>
    /\ UNCHANGED exceptProcessing

NextRepository ==
    \/ DiscoverPlanFile
    \/ GetFileContent
    \/ CallCloneAndParse

SpecRepository == InitRepository /\ [][NextRepository]_vars

\* the plan locations, by rank, at which repo_path has a regular file
RegularFiles(repo_path) ==
    {k \in 1..Len(plan_locations) :
        /\ filesystem[repo_path] # <<>>
        /\ filesystem[repo_path][1][plan_locations[k]].kind \in {"file", "unreadable"}}

\* C20: discover_plan_file returns the first location among docs/plan.md,
\* plan.md, README.md (in that priority order) that exists as a regular
\* file, and returns None if and only if none of the three exists as one; a
\* lower-priority file is never returned while a higher-priority one exists.
\* The location is returned as the path of the file under repo_path.
C20_FirstExistingLocation ==
    lookup.op = "discover_plan_file" =>
        LET regular == RegularFiles(lookup.repo_path)
        IN  /\ lookup.value = <<>> <=> regular = {}
            /\ \A k \in regular :
                 (\A j \in regular : k <= j) =>
                     lookup.value = <<lookup.repo_path \o "/" \o plan_locations[k]>>
            /\ \A k \in 1..Len(plan_locations) :
                 lookup.value = <<lookup.repo_path \o "/" \o plan_locations[k]>> =>
                     \A j \in regular : k <= j

\* plan.md was returned from a checkout that also has a README.md and, at
\* docs/plan.md, a directory
C20_Witness ==
    /\ lookup.op = "discover_plan_file"
    /\ filesystem[lookup.repo_path] # <<>>
    /\ filesystem[lookup.repo_path][1]["docs/plan.md"].kind = "directory"
    /\ filesystem[lookup.repo_path][1]["plan.md"].kind = "file"
    /\ filesystem[lookup.repo_path][1]["README.md"].kind = "file"
    /\ lookup.value = <<lookup.repo_path \o "/plan.md">>

(***************************************************************************)
(* PlanProcessingPipeline.process_project                                  *)
(*                                                                         *)
(* The calls run as coroutines of one event loop: a call gives way to the  *)
(* others only where it awaits the database (db.execute, db.commit).       *)
(* clone_repository, discover_plan_file, get_file_content,                 *)
(* extract_tasks_from_markdown and calculate_progress await nothing that   *)
(* suspends, so clone_and_parse and calculate_progress are one step.       *)
(* Every statement sent to the database may fail; a failed commit leaves   *)
(* the rows as they were.  Each call has a database session of its own:    *)
(* what it adds and deletes reaches the tables at its commit.              *)
(***************************************************************************)
RunIds == 1..MaxRuns

ProjectIds == 1..MaxRuns

\* the exception of a statement the database did not carry out
SQLAlchemyError == [type |-> "SQLAlchemyError", status_code |-> 0, detail |-> "storage error"]

\* ProcessingResult
ProcessingResult(success, tasks_count, progress_percentage, project_status, error_message) ==
    [success |-> success, tasks_count |-> tasks_count,
     progress_percentage |-> progress_percentage, project_status |-> project_status,
     error_message |-> error_message]

\* the row of the tasks table for a task; run stands for the ids the rows
\* get: it names the call whose commit inserted the row (0: an earlier call)
DBTask(run, task) ==
    [run |-> run, title |-> task.title, status |-> task.status,
     file_path |-> task.file_path, line_number |-> task.line_number]

\* the row of the progress_snapshots table for a snapshot
DBProgressSnapshot(run, progress_snapshot) ==
    [run |-> run, percentage_complete |-> progress_snapshot.percentage_complete,
     tasks_total |-> progress_snapshot.tasks_total,
     tasks_done |-> progress_snapshot.tasks_done,
     tasks_doing |-> progress_snapshot.tasks_doing,
     tasks_todo |-> progress_snapshot.tasks_todo,
     tasks_blocked |-> progress_snapshot.tasks_blocked]

\* the task an earlier call stored for a project
EarlierTasks == <<NewTask("Earlier task", "todo", "plan.md", 1, "", "")>>

\* a call of process_project(project_id, db): where it is, the Project it
\* fetched, its local repo_path (set to None and never assigned), the
\* repo_cache of its RepositoryManager, the rows its select of the existing
\* tasks returned, the tasks and snapshot it holds, the exception its except
\* clause caught, and how it ended (result or raised).  Kept for the
\* properties: whether a statement of its own failed, whether it began while
\* another call for its project was in flight, and the rows stored for its
\* project when it began.
NewRun(project_id) ==
    [project_id |-> project_id, pc |-> "get_project", repo_url |-> <<>>, plan_path |-> <<>>,
     repo_path |-> <<>>, repo_cache |-> {}, existing_tasks |-> {},
     tasks |-> <<>>, progress_snapshot |-> <<>>,
     caught |-> <<>>, result |-> <<>>, raised |-> <<>>,
     storage_failed |-> FALSE, overlapped |-> FALSE, before |-> <<>>]

InitRuns ==
    /\ IdleProgress
    /\ IdleMapper
    /\ IdleDedup
    /\ IdleParser
    /\ IdlePipeline
    /\ IdleExtractor
    /\ IdleProjects
    /\ filesystem = [d \in RepoPaths |-> <<>>]
    /\ lookup = NoLookup
    /\ \E urls \in [ProjectIds -> 1..Len(RepoUrlList)], earlier \in {<<>>, EarlierTasks} :
         \* the projects are interchangeable: they are numbered in the order of their URLs
         /\ \A p, q \in ProjectIds : p < q => urls[p] < urls[q]
         /\ database = [p \in ProjectIds |->
                           [repo_url |-> RepoUrlList[urls[p]], plan_path |-> "docs/plan.md",
                            status |-> "yellow",
                            tasks |-> [k \in 1..Len(earlier) |-> DBTask(0, earlier[k])],
                            snapshots |-> IF earlier = <<>> THEN <<>>
                                          ELSE <<DBProgressSnapshot(0, calculate_progress(earlier))>>]]
    /\ \E project \in [RunIds -> ProjectIds] :
         \* the calls are interchangeable: they are numbered in the order of their projects
         /\ \A r, s \in RunIds : r < s => project[r] <= project[s]
         /\ runs = [r \in RunIds |-> NewRun(project[r])]

\* the calls for the project of call r that have begun and not ended
InFlight(r) ==
    {s \in RunIds \ {r} : /\ runs[s].project_id = runs[r].project_id
                          /\ runs[s].before # <<>>
                          /\ runs[s].pc \notin {"returned", "raised"}}

\* the except clause is entered with e
Caught(run, e, by_storage) ==
    [run EXCEPT !.pc = "except", !.caught = <<e>>,
                !.storage_failed = run.storage_failed \/ by_storage]

\* finally: if repo_path: cleanup_repository(repo_path)
finally(fs, run) ==
    IF run.repo_path # <<>> THEN cleanup_repository(fs, run.repo_path[1]) ELSE fs

\* _get_project, and the 404 for a project that is not stored
GetProject(r) ==
    /\ runs[r].pc = "get_project"
    /\ \E ok \in BOOLEAN :
       \E p \in {runs[r].project_id} :
       \E began \in {[runs[r] EXCEPT !.before = <<[tasks |-> database[p].tasks,
                                                  snapshots |-> database[p].snapshots]>>,
                                     !.overlapped = InFlight(r) # {}]} :
         runs' = [s \in RunIds |->
                     IF s = r
                     THEN IF ~ok THEN Caught(began, SQLAlchemyError, TRUE)
                          ELSE IF p \notin DOMAIN database
                          THEN Caught(began, HTTPException(404, "Project not found"), FALSE)
                          ELSE [began EXCEPT !.pc = "update_processing",
                                             !.repo_url = <<database[p].repo_url>>,
                                             !.plan_path = <<database[p].plan_path>>]
                     ELSE IF s \in InFlight(r) THEN [runs[s] EXCEPT !.overlapped = TRUE]
                     ELSE runs[s]]
    /\ UNCHANGED <<filesystem, lookup, database>>
    /\ UNCHANGED exceptProcessing

\* _update_project_status(project_id, "processing", db)
UpdateProcessing(r) ==
    /\ runs[r].pc = "update_processing"
    /\ \E ok \in BOOLEAN :
         IF ok
         THEN /\ database' = [database EXCEPT ![runs[r].project_id].status = "processing"]
              /\ runs' = [runs EXCEPT ![r].pc = "clone_and_parse"]
         ELSE /\ runs' = [runs EXCEPT ![r] = Caught(@, SQLAlchemyError, TRUE)]
              /\ UNCHANGED database
    /\ UNCHANGED <<filesystem, lookup>>
    /\ UNCHANGED exceptProcessing

\* clone_and_parse(project.repo_url, project.plan_path), then calculate_progress(tasks)
CloneAndParse(r) ==
    /\ runs[r].pc = "clone_and_parse"
    /\ \E parse \in {clone_and_parse(filesystem, runs[r].repo_url[1], runs[r].plan_path[1])} :
           /\ filesystem' = parse.fs
           /\ runs' = [runs EXCEPT ![r] =
                          IF parse.raised # <<>>
                          THEN Caught([@ EXCEPT !.repo_cache = parse.repo_cache],
                                      parse.raised[1], FALSE)
                          ELSE [@ EXCEPT !.pc = "store_tasks_and_progress",
                                         !.repo_cache = parse.repo_cache,
                                         !.tasks = parse.tasks,
                                         !.progress_snapshot = <<calculate_progress(parse.tasks)>>]]
    /\ UNCHANGED <<lookup, database>>
    /\ UNCHANGED exceptProcessing

\* _store_tasks_and_progress, up to the commit: the two selects of the
\* project's tasks (the result of the first is dropped), and db.delete for
\* each row of the second, which marks the row in the session
SelectExistingTasks(r) ==
    /\ runs[r].pc = "store_tasks_and_progress"
    /\ \E ok \in BOOLEAN :
         runs' = [runs EXCEPT ![r] =
                     IF ok
                     THEN [@ EXCEPT !.pc = "commit",
                                    !.existing_tasks = Range(database[runs[r].project_id].tasks)]
                     ELSE Caught(@, SQLAlchemyError, TRUE)]
    /\ UNCHANGED <<filesystem, lookup, database>>
    /\ UNCHANGED exceptProcessing

\* the rows of the tasks table for the tasks of call r
DBTasks(r) == [k \in 1..Len(runs[r].tasks) |-> DBTask(r, runs[r].tasks[k])]

\* a commit that inserts the rows added and deletes nothing
commit_without_delete(project, existing_tasks, db_tasks, db_snapshot) ==
    [project EXCEPT !.tasks = @ \o db_tasks,
                    !.snapshots = Append(@, db_snapshot)]

\* what db.commit() of _store_tasks_and_progress does to the rows of the
\* project: the rows marked by db.delete are deleted (one that is gone already
\* is passed over), the rows added are inserted
commit_tasks_and_progress(project, existing_tasks, db_tasks, db_snapshot) ==
    LET Kept(row) == row \notin existing_tasks
    IN  [project EXCEPT !.tasks = SelectSeq(@, Kept) \o db_tasks,
                        !.snapshots = Append(@, db_snapshot)]

\* _store_tasks_and_progress, db.commit()
CommitTasksAndProgress(r) ==
    /\ runs[r].pc = "commit"
    /\ \E ok \in BOOLEAN :
       \E p \in {runs[r].project_id} :
         IF ok
         THEN /\ database' = [database EXCEPT ![p] =
                                 commit_tasks_and_progress(@, runs[r].existing_tasks, DBTasks(r),
                                     DBProgressSnapshot(r, runs[r].progress_snapshot[1]))]
              /\ runs' = [runs EXCEPT ![r].pc = "update_status"]
         ELSE /\ runs' = [runs EXCEPT ![r] = Caught(@, SQLAlchemyError, TRUE)]
              /\ UNCHANGED database
    /\ UNCHANGED <<filesystem, lookup>>
    /\ UNCHANGED exceptProcessing

\* _update_project_status(project_id, progress_snapshot.project_status, db),
\* the return of the result, and the finally clause
UpdateStatus(r) ==
    /\ runs[r].pc = "update_status"
    /\ \E ok \in BOOLEAN :
         IF ok
         THEN LET progress_snapshot == runs[r].progress_snapshot[1]
              IN  /\ database' = [database EXCEPT
                                     ![runs[r].project_id].status = progress_snapshot.project_status]
                  /\ runs' = [runs EXCEPT ![r].pc = "returned",
                                          ![r].result = <<ProcessingResult(TRUE, Len(runs[r].tasks),
                                                             progress_snapshot.percentage_complete,
                                                             progress_snapshot.project_status, <<>>)>>]
                  /\ filesystem' = finally(filesystem, runs[r])
         ELSE /\ runs' = [runs EXCEPT ![r] = Caught(@, SQLAlchemyError, TRUE)]
              /\ UNCHANGED <<database, filesystem>>
    /\ UNCHANGED lookup
    /\ UNCHANGED exceptProcessing

\* the except clause: _update_project_status(project_id, "failed", db), then
\* the failure result; an exception of the update leaves process_project;
\* the finally clause runs either way
HandleException(r) ==
    /\ runs[r].pc = "except"
    /\ \E ok \in BOOLEAN :
         IF ok
         THEN /\ database' = [database EXCEPT ![runs[r].project_id].status = "failed"]
              /\ runs' = [runs EXCEPT ![r].pc = "returned",
                                      ![r].result = <<ProcessingResult(FALSE, 0, 0, "red", runs[r].caught)>>]
         ELSE /\ runs' = [runs EXCEPT ![r].pc = "raised",
                                      ![r].storage_failed = TRUE,
                                      ![r].raised = <<SQLAlchemyError>>]
              /\ UNCHANGED database
    /\ filesystem' = finally(filesystem, runs[r])
    /\ UNCHANGED lookup
    /\ UNCHANGED exceptProcessing

NextRuns ==
    \E r \in RunIds :
        \/ GetProject(r)
        \/ UpdateProcessing(r)
        \/ CloneAndParse(r)
        \/ SelectExistingTasks(r)
        \/ CommitTasksAndProgress(r)
        \/ UpdateStatus(r)
        \/ HandleException(r)

SpecRuns == InitRuns /\ [][NextRuns]_vars

\* clone_and_parse(repo_url, 'docs/plan.md') called with nothing under temp_dir
\* and no other call
AloneParse ==
    [repo_url \in RepoUrls |-> clone_and_parse([d \in RepoPaths |-> <<>>], repo_url, "docs/plan.md")]

\* what process_project returns for the project when it runs alone and the
\* database carries out every statement
AloneResult(p) ==
    LET alone == AloneParse[database[p].repo_url]
        progress_snapshot == calculate_progress(alone.tasks)
    IN  IF alone.raised # <<>> THEN ProcessingResult(FALSE, 0, 0, "red", alone.raised)
        ELSE ProcessingResult(TRUE, Len(alone.tasks), progress_snapshot.percentage_complete,
                              progress_snapshot.project_status, <<>>)

\* the calls for project p
RunsOf(p) == {r \in RunIds : runs[r].project_id = p}

C12_EndsInTerminalState ==
    \A r \in RunIds :
        LET p == runs[r].project_id
        IN  (runs[r].pc \in {"returned", "raised"} /\ RunsOf(p) = {r}) =>
                \/ /\ runs[r].result # <<>>
                   /\ runs[r].result[1].success
                   /\ database[p].status \in {"green", "yellow", "red"}
                   /\ database[p].status = runs[r].result[1].project_status
                   /\ database[p].tasks = DBTasks(r)
                \/ /\ runs[r].caught # <<>>
                   /\ database[p].status = "failed"

\* C13: on any collaborator error during a run (clone failure, no plan file,
\* unreadable file, storage error), process_project ends Failed and surfaces
\* the triggering error: the caller receives a single failure result carrying
\* that error's message with success false, and the stored project status
\* becomes 'failed'.  Stated for a run that is the only one for its project.
C13_ErrorGivesFailureResult ==
    \A r \in RunIds :
        LET p == runs[r].project_id
        IN  (runs[r].caught # <<>> /\ runs[r].pc # "except" /\ RunsOf(p) = {r}) =>
                /\ runs[r].pc = "returned"
                /\ runs[r].raised = <<>>
                /\ runs[r].result = <<ProcessingResult(FALSE, 0, 0, "red", runs[r].caught)>>
                /\ database[p].status = "failed"

\* the calls for project p that returned a result with success true
Succeeded(p) ==
    {r \in RunsOf(p) : /\ runs[r].pc = "returned"
                       /\ runs[r].result[1].success}

\* project p is after a sequence of successful runs: each call for it has
\* not begun or has returned success, and none began while another was in
\* flight
AfterSuccessfulRuns(p) ==
    \A r \in RunsOf(p) :
        /\ runs[r].before = <<>> \/ r \in Succeeded(p)
        /\ ~runs[r].overlapped

\* the call of a sequence that began after the others had stored
MostRecent(p) ==
    CHOOSE r \in Succeeded(p) :
        \A s \in Succeeded(p) \ {r} :
            \E k \in 1..Len(runs[r].before[1].snapshots) :
                runs[r].before[1].snapshots[k].run = s

C21_State ==
    \A p \in ProjectIds :
        (AfterSuccessfulRuns(p) /\ Succeeded(p) # {}) =>
            LET snapshots == database[p].snapshots
                earlier == {k \in 1..Len(snapshots) : snapshots[k].run = 0}
            IN  /\ database[p].tasks = DBTasks(MostRecent(p))
                /\ Len(snapshots) = Cardinality(earlier) + Cardinality(Succeeded(p))
                /\ \A r \in Succeeded(p) :
                     /\ Cardinality({k \in 1..Len(snapshots) : snapshots[k].run = r}) = 1
                     /\ Len(runs[r].before[1].snapshots) < Len(snapshots)
                     /\ SubSeq(snapshots, 1, Len(runs[r].before[1].snapshots))
                            = runs[r].before[1].snapshots

C21_Frame ==
    \A p \in ProjectIds :
        (\A r \in RunsOf(p) : runs'[r] = runs[r]) =>
            /\ database'[p].tasks = database[p].tasks
            /\ database'[p].snapshots = database[p].snapshots

\* C21: after any sequence of successful process_project runs, the tasks
\* stored for a project are exactly the tasks of its most recent run (the
\* earlier rows are replaced), each run has added exactly one progress
\* snapshot to those stored before it, and a step of a run leaves the tasks
\* and snapshots of the other projects unchanged.
C21_TasksOfMostRecentRun == []C21_State /\ [][C21_Frame]_vars

\* two runs for a project that had a task stored, one after the other: the
\* rows are those of the second run, and there are three snapshots
C21_Witness ==
    \E p \in ProjectIds :
        /\ AfterSuccessfulRuns(p)
        /\ Cardinality(Succeeded(p)) = 2
        /\ Len(database[p].snapshots) = 3
        /\ database[p].snapshots[1].run = 0
        /\ database[p].tasks # <<>>
        /\ database[p].tasks = DBTasks(MostRecent(p))
        /\ \E q \in ProjectIds \ {p} : database[q].tasks = [k \in 1..1 |-> DBTask(0, EarlierTasks[k])]

\* C27: every checkout created by a process_project run is cleaned up: by
\* the time process_project returns, on success and on every failure path,
\* the cloned directory is removed and its entry is no longer in repo_cache.
\* The directory is looked at when no other project is cloned into it.
C27_CheckoutCleanedUp ==
    \A r \in RunIds :
        LET repo_path == clone_path(database[runs[r].project_id].repo_url)
        IN  runs[r].pc \in {"returned", "raised"} =>
                /\ runs[r].repo_cache = {}
                /\ (\A q \in ProjectIds \ {runs[r].project_id} :
                        clone_path(database[q].repo_url) # repo_path)
                      => filesystem[repo_path] = <<>>

\* C28: a run that ends with success false leaves the stored tasks and the
\* stored progress snapshots of its project exactly as they were before the
\* run, whichever step failed.  Stated for a run that is the only one for
\* its project.
C28_FailureLeavesStoredData ==
    \A r \in RunIds :
        LET p == runs[r].project_id
        IN  (/\ runs[r].pc = "returned"
             /\ ~runs[r].result[1].success
             /\ RunsOf(p) = {r}) =>
                /\ database[p].tasks = runs[r].before[1].tasks
                /\ database[p].snapshots = runs[r].before[1].snapshots

\* C29: when two process_project runs for the same project interleave, after
\* both have completed the stored tasks of the project are exactly the task
\* list of one of the runs: no task is stored twice and the rows of the two
\* runs are not mixed.
C29_TasksOfOneRun ==
    \A p \in ProjectIds :
        (Cardinality(RunsOf(p)) > 1 /\ Succeeded(p) = RunsOf(p)) =>
            \E r \in RunsOf(p) : database[p].tasks = DBTasks(r)

ImageWithoutPrefixAndTag(reference) ==
    lower(split(Last(split(reference, "/")), ":")[1])

\* the package names a Dockerfile line stands for: the image of a FROM line,
\* the tools of a RUN line
LinePackageNames(line) ==
    IF line = "" \/ StartsWith(line, "#") THEN <<>>
    ELSE IF StartsWith(upper(line), "FROM ")
    THEN <<ImageWithoutPrefixAndTag(split_whitespace(SubSeq(line, 6, Len(line)))[1])>>
    ELSE IF StartsWith(upper(line), "RUN ")
    THEN detect_tools_from_command(strip(SubSeq(line, 5, Len(line))))
    ELSE <<>>

\* C26: for each FROM line of a Dockerfile, parse_dockerfile emits exactly one
\* Package whose name is the image reference with its tag (the ':' suffix)
\* and its registry/path prefix (everything up to the final '/') removed,
\* lower-cased, for every image reference, with or without a tag and with or
\* without a registry prefix (including a registry given as host:port);
\* 'FROM python:3.11-slim' gives python.
C26_ImageNames ==
    (parsed.called /\ manifest.filename = "Dockerfile") =>
        LET lines == split(manifest.content.text, "\n")
            names == Flatten([n \in 1..Len(lines) |-> LinePackageNames(strip(lines[n]))])
        IN  /\ parsed.raised = ""
            /\ Len(parsed.packages) = Len(names)
            /\ \A k \in 1..Len(names) :
                 /\ parsed.packages[k].name = names[k]
                 /\ parsed.packages[k].source = "Dockerfile"

(***************************************************************************)
(* The project endpoints: create_project, get_project, update_project,     *)
(* delete_project, and the status update of the pipeline.                  *)
(*                                                                         *)
(* The requests are served one after the other.  A UUID is its 32 hex      *)
(* digits in lower case; datetime.utcnow() is a clock that every write     *)
(* advances.  An optional field of a request is <<>> (None) or <<value>>.  *)
(***************************************************************************)
HexDigits == "0123456789abcdefABCDEF"

\* uuid.UUID(project_id): <<the UUID>>, or <<>> for ValueError
uuid_UUID(project_id) ==
    LET unprefixed == replace(replace(project_id, "urn:", ""), "uuid:", "")
        leading == LeadingRun(unprefixed, "{}")
        stripped == IF leading = Len(unprefixed) THEN ""
                    ELSE SubSeq(unprefixed, leading + 1,
                                Len(unprefixed) - TrailingRun(unprefixed, "{}"))
        hex == replace(stripped, "-", "")
    IN  IF Len(hex) = 32 /\ \A i \in 1..32 : Contains(HexDigits, CharAt(hex, i))
        THEN <<lower(hex)>>
        ELSE <<>>

\* str(uuid)
UuidString(id) ==
    SubSeq(id, 1, 8) \o "-" \o SubSeq(id, 9, 12) \o "-" \o SubSeq(id, 13, 16)
        \o "-" \o SubSeq(id, 17, 20) \o "-" \o SubSeq(id, 21, 32)

\* the k-th id uuid.uuid4 issues
uuid4(k) == "0000000000004000800000000000000" \o CharAt(Digits, k + 1)

\* the project_id of the requests: the first two ids uuid4 issues as
\* str(uuid) (stored or not, as the requests before have left them), the
\* first also in braces, and a text that is no UUID
ProjectIdTexts ==
    {UuidString(uuid4(1)), UuidString(uuid4(2)),
     "{00000000-0000-4000-8000-000000000001}", "not-a-uuid"}

\* uuid.UUID of each of these texts and of str(id) of the ids issued
Uuids ==
    [project_id \in ProjectIdTexts \cup {UuidString(uuid4(k)) : k \in 1..MaxWrites}
        |-> uuid_UUID(project_id)]

\* validate_repo_url of ProjectBase and ProjectUpdate
validate_repo_url(v) == StartsWith(v, "http://") \/ StartsWith(v, "https://")

\* the rows whose repo_url is the one given
WithRepoUrl(table, repo_url) == SelectSeq(table, LAMBDA row : row.repo_url = repo_url)

\* select(Project).where(Project.id == project_uuid), scalar_one_or_none: the
\* position of the row, 0 for None
PositionOf(table, id) ==
    IF \E k \in 1..Len(table) : table[k].id = id
    THEN CHOOSE k \in 1..Len(table) : table[k].id = id
    ELSE 0

\* the outcome of a request: the response and the table it leaves
Outcome200(table, row) == [status_code |-> 200, detail |-> "", body |-> <<row>>, projects |-> table]

Rejected(table, status_code, detail) ==
    [status_code |-> status_code, detail |-> detail, body |-> <<>>, projects |-> table]

\* create_project that does not look for a row with the repo_url
create_project_unchecked(table, time, project) ==
    LET db_project == [id |-> uuid4(time.issued + 1), name |-> project.name[1],
                       repo_url |-> project.repo_url[1], plan_path |-> project.plan_path[1],
                       status |-> "yellow", last_updated |-> time.now + 1,
                       created_at |-> time.now + 1]
    IN  IF ~validate_repo_url(project.repo_url[1])
        THEN Rejected(table, 422, "repo_url must be a valid HTTP/HTTPS URL")
        ELSE Outcome200(Append(table, db_project), db_project)

\* create_project(project: ProjectCreate)
create_project(table, time, project) ==
    LET db_project == [id |-> uuid4(time.issued + 1), name |-> project.name[1],
                       repo_url |-> project.repo_url[1], plan_path |-> project.plan_path[1],
                       status |-> "yellow", last_updated |-> time.now + 1,
                       created_at |-> time.now + 1]
    IN  IF ~validate_repo_url(project.repo_url[1])
        THEN Rejected(table, 422, "repo_url must be a valid HTTP/HTTPS URL")
        ELSE IF WithRepoUrl(table, project.repo_url[1]) # <<>>
        THEN Rejected(table, 400, "A project with this repository URL already exists")
        ELSE Outcome200(Append(table, db_project), db_project)

\* get_project(project_id)
get_project_by_id(table, project_id) ==
    LET project_uuid == Uuids[project_id]
        k == PositionOf(table, project_uuid[1])
    IN  IF project_uuid = <<>> THEN Rejected(table, 400, "Invalid project ID format")
        ELSE IF k = 0 THEN Rejected(table, 404, "Project not found")
        ELSE Outcome200(table, table[k])

\* update_project that writes the default plan_path when none is supplied
update_project_defaulting(table, time, project_id, project_update) ==
    LET project_uuid == Uuids[project_id]
        k == PositionOf(table, project_uuid[1])
        project == table[k]
        updated == [project EXCEPT
                       !.name = IF project_update.name # <<>> THEN project_update.name[1] ELSE @,
                       !.repo_url = IF project_update.repo_url # <<>>
                                    THEN project_update.repo_url[1] ELSE @,
                       !.plan_path = IF project_update.plan_path # <<>>
                                     THEN project_update.plan_path[1] ELSE "docs/plan.md",
                       !.last_updated = time.now + 1]
    IN  IF project_update.repo_url # <<>> /\ ~validate_repo_url(project_update.repo_url[1])
        THEN Rejected(table, 422, "repo_url must be a valid HTTP/HTTPS URL")
        ELSE IF project_uuid = <<>> THEN Rejected(table, 400, "Invalid project ID format")
        ELSE IF k = 0 THEN Rejected(table, 404, "Project not found")
        ELSE IF /\ project_update.repo_url # <<>>
                /\ project_update.repo_url[1] # ""
                /\ project_update.repo_url[1] # project.repo_url
                /\ WithRepoUrl(table, project_update.repo_url[1]) # <<>>
        THEN Rejected(table, 400, "A project with this repository URL already exists")
        ELSE Outcome200([table EXCEPT ![k] = updated], updated)

\* update_project(project_id, project_update: ProjectUpdate)
update_project(table, time, project_id, project_update) ==
    LET project_uuid == Uuids[project_id]
        k == PositionOf(table, project_uuid[1])
        project == table[k]
        updated == [project EXCEPT
                       !.name = IF project_update.name # <<>> THEN project_update.name[1] ELSE @,
                       !.repo_url = IF project_update.repo_url # <<>>
                                    THEN project_update.repo_url[1] ELSE @,
                       !.plan_path = IF project_update.plan_path # <<>>
                                     THEN project_update.plan_path[1] ELSE @,
                       !.last_updated = time.now + 1]
    IN  IF project_update.repo_url # <<>> /\ ~validate_repo_url(project_update.repo_url[1])
        THEN Rejected(table, 422, "repo_url must be a valid HTTP/HTTPS URL")
        ELSE IF project_uuid = <<>> THEN Rejected(table, 400, "Invalid project ID format")
        ELSE IF k = 0 THEN Rejected(table, 404, "Project not found")
        ELSE IF /\ project_update.repo_url # <<>>
                /\ project_update.repo_url[1] # ""
                /\ project_update.repo_url[1] # project.repo_url
                /\ WithRepoUrl(table, project_update.repo_url[1]) # <<>>
        THEN Rejected(table, 400, "A project with this repository URL already exists")
        ELSE Outcome200([table EXCEPT ![k] = updated], updated)

\* delete_project(project_id)
delete_project(table, project_id) ==
    LET project_uuid == Uuids[project_id]
        k == PositionOf(table, project_uuid[1])
    IN  IF project_uuid = <<>> THEN Rejected(table, 400, "Invalid project ID format")
        ELSE IF k = 0 THEN Rejected(table, 404, "Project not found")
        ELSE [status_code |-> 200, detail |-> "Project deleted successfully", body |-> <<>>,
              projects |-> SubSeq(table, 1, k - 1) \o SubSeq(table, k + 1, Len(table))]

\* _update_project_status(project_id, status, db) of the pipeline
update_project_status(table, time, project_id, status) ==
    LET project_uuid == Uuids[project_id]
    IN  IF project_uuid = <<>> THEN Rejected(table, 400, "Invalid project ID format")
        ELSE [status_code |-> 0, detail |-> "", body |-> <<>>,
              projects |-> [k \in 1..Len(table) |->
                               IF table[k].id = project_uuid[1]
                               THEN [table[k] EXCEPT !.status = status,
                                                     !.last_updated = time.now + 1]
                               ELSE table[k]]]

RequestUrls == {"https://h/alice/app.git", "https://h/bob/app", "ftp://h/eve/site"}

RequestPlanPaths == {"docs/plan.md", "PLAN.md"}

Optional(S) == {<<>>} \cup {<<v>> : v \in S}

\* the body of a ProjectCreate (plan_path has its default when left out)
ProjectCreates ==
    [name : {<<"App">>}, repo_url : {<<u>> : u \in RequestUrls},
     plan_path : {<<pp>> : pp \in RequestPlanPaths}]

\* the body of a ProjectUpdate
ProjectUpdates ==
    [name : Optional({"Site"}), repo_url : Optional(RequestUrls),
     plan_path : Optional({"PLAN.md"})]

InitProjects ==
    /\ IdleProgress
    /\ IdleMapper
    /\ IdleDedup
    /\ IdleParser
    /\ IdlePipeline
    /\ IdleExtractor
    /\ IdleProcessing
    /\ projects = <<>>
    /\ clock = [now |-> 0, issued |-> 0]
    /\ response = NoResponse

\* the response, and the clock after a request that wrote at time now + 1
Respond(op, project_id, request, outcome, wrote, issued) ==
    /\ projects' = outcome.projects
    /\ response' = [op |-> op, project_id |-> project_id, request |-> request,
                    status_code |-> outcome.status_code, detail |-> outcome.detail,
                    body |-> outcome.body]
    /\ clock' = [now |-> clock.now + (IF wrote THEN 1 ELSE 0),
                 issued |-> clock.issued + (IF issued THEN 1 ELSE 0)]

\* POST /projects/
CreateProject ==
    /\ clock.now < MaxWrites
    /\ \E project \in ProjectCreates :
       \E outcome \in {create_project(projects, clock, project)} :
         Respond("create_project", "", <<project>>, outcome,
                 outcome.status_code = 200, outcome.status_code = 200)
    /\ UNCHANGED exceptProjects

\* GET /projects/{project_id}
GetProjectById ==
    /\ \E project_id \in ProjectIdTexts :
         Respond("get_project", project_id, <<>>, get_project_by_id(projects, project_id),
                 FALSE, FALSE)
    /\ UNCHANGED exceptProjects

\* PUT /projects/{project_id}
UpdateProject ==
    /\ clock.now < MaxWrites
    /\ \E project_id \in ProjectIdTexts, project_update \in ProjectUpdates :
       \E outcome \in {update_project(projects, clock, project_id, project_update)} :
         Respond("update_project", project_id, <<project_update>>, outcome,
                 outcome.status_code = 200, FALSE)
    /\ UNCHANGED exceptProjects

\* DELETE /projects/{project_id}
DeleteProject ==
    /\ \E project_id \in ProjectIdTexts :
         Respond("delete_project", project_id, <<>>, delete_project(projects, project_id),
                 FALSE, FALSE)
    /\ UNCHANGED exceptProjects

\* a run of the pipeline sets the status of a stored project
UpdateProjectStatus ==
    /\ clock.now < MaxWrites
    /\ \E k \in 1..Len(projects), status \in {"processing", "green"} :
         Respond("update_project_status", UuidString(projects[k].id), <<status>>,
                 update_project_status(projects, clock, UuidString(projects[k].id), status),
                 TRUE, FALSE)
    /\ UNCHANGED exceptProjects

NextProjects ==
    \/ CreateProject
    \/ GetProjectById
    \/ UpdateProject
    \/ DeleteProject
    \/ UpdateProjectStatus

SpecProjects == InitProjects /\ [][NextProjects]_vars

\* no two stored projects have the same repo_url
C22_NoSharedRepoUrl ==
    \A j, k \in 1..Len(projects) :
        j # k => projects[j].repo_url # projects[k].repo_url

\* a create whose repo_url is stored, and an update of a stored project to the
\* repo_url of another one, get 400 'already exists' and change no row
C22_DuplicateRejected ==
    LET request == response'.request[1]
        rejected == /\ response'.status_code = 400
                    /\ Contains(response'.detail, "already exists")
                    /\ projects' = projects
    IN  /\ (/\ response'.op = "create_project"
            /\ WithRepoUrl(projects, request.repo_url[1]) # <<>>) => rejected
        /\ (/\ response'.op = "update_project"
            /\ Uuids[response'.project_id] # <<>>
            /\ request.repo_url # <<>>
            /\ \E k \in 1..Len(projects) :
                 /\ projects[k].id # Uuids[response'.project_id][1]
                 /\ projects[k].repo_url = request.repo_url[1]
            /\ \E k \in 1..Len(projects) :
                 projects[k].id = Uuids[response'.project_id][1]) => rejected

\* C22: after any sequence of create, update and delete project requests, no
\* two stored projects share a repo_url: a create whose repo_url is already
\* stored, and an update that changes repo_url to one used by another
\* project, are rejected with status 400 ('already exists') and leave the
\* set of stored projects unchanged.
C22_UniqueRepoUrl == []C22_NoSharedRepoUrl /\ [][C22_DuplicateRejected]_vars

\* with two projects stored, the update of one to the repo_url of the other
\* was rejected
C22_Witness ==
    /\ response.op = "update_project"
    /\ response.status_code = 400
    /\ Contains(response.detail, "already exists")
    /\ Len(projects) = 2
    /\ response.request[1].repo_url # <<>>
    /\ \E j, k \in 1..Len(projects) :
         /\ j # k
         /\ projects[j].id = Uuids[response.project_id][1]
         /\ projects[k].repo_url = response.request[1].repo_url[1]

\* an update that succeeded changed the fields supplied and last_updated of
\* the row addressed, and nothing else; an update or a get for a UUID that is
\* not stored got 404 and changed nothing
C23_OnlySuppliedFields ==
    LET project_uuid == Uuids[response'.project_id]
        k == PositionOf(projects, project_uuid[1])
        project_update == response'.request[1]
    IN  /\ (response'.op = "update_project" /\ response'.status_code = 200) =>
              /\ k # 0
              /\ Len(projects') = Len(projects)
              /\ \A j \in 1..Len(projects) : j # k => projects'[j] = projects[j]
              /\ projects'[k].id = projects[k].id
              /\ projects'[k].status = projects[k].status
              /\ projects'[k].created_at = projects[k].created_at
              /\ projects'[k].name =
                     IF project_update.name = <<>> THEN projects[k].name
                     ELSE project_update.name[1]
              /\ projects'[k].repo_url =
                     IF project_update.repo_url = <<>> THEN projects[k].repo_url
                     ELSE project_update.repo_url[1]
              /\ projects'[k].plan_path =
                     IF project_update.plan_path = <<>> THEN projects[k].plan_path
                     ELSE project_update.plan_path[1]
              /\ projects'[k].last_updated > projects[k].last_updated
              /\ response'.body = <<projects'[k]>>
        /\ (/\ response'.op \in {"update_project", "get_project"}
            /\ project_uuid # <<>>
            /\ k = 0
            /\ response'.op = "update_project" =>
                   (project_update.repo_url = <<>>
                      \/ validate_repo_url(project_update.repo_url[1]))) =>
              /\ response'.status_code = 404
              /\ projects' = projects

\* C23: update_project changes only the fields supplied in the request
\* (among name, repo_url, plan_path) and last_updated; every field not
\* supplied, and the project's id, status and created_at, keep their previous
\* values; an update or get for an id that is not stored returns 404 and
\* changes nothing.  An id is a UUID; the body of the update is one the
\* validation of ProjectUpdate accepts.
C23_UpdateFrame == [][C23_OnlySuppliedFields]_vars

\* a project whose status a run had set was renamed by an update that
\* supplied the name only: plan_path, repo_url and status are as before
C23_Witness ==
    /\ response.op = "update_project"
    /\ response.status_code = 200
    /\ response.request[1] = [name |-> <<"Site">>, repo_url |-> <<>>, plan_path |-> <<>>]
    /\ response.body[1].name = "Site"
    /\ response.body[1].status = "green"
    /\ response.body[1].plan_path = "PLAN.md"
    /\ response.body[1].last_updated > response.body[1].created_at + 1

====
